---- MODULE Spec2Model ----
(***************************************************************************)
(* proj-daemon: the child-process supervisor (process.rs), the Event       *)
(* Router and IPC dispatcher (ipc.rs), the routing table and the proxy's   *)
(* lookup (proxy.rs) and the registry (registry.rs).                       *)
(*                                                                         *)
(* Option<T> is modelled as a set: None is {} and Some(x) is {x}.          *)
(* A Uuid process_id is modelled as the number of the spawn that drew it.  *)
(***************************************************************************)
EXTENDS Integers, Sequences, FiniteSets, TLC

\* ------------------------------------------------------------------ bounds
\* Number of RunCommand requests whose cmd.spawn() succeeds.
MaxProcs == 2
\* Polls of the port probe (60 in process.rs:172).
MaxPolls == 1
\* Characters of a validated name before its run of "a".
MaxText == 2
\* Rows of the lsof output one call of detect_port reads.
MaxRows == 2
\* Times the daemon is stopped and started again.
MaxRestarts == 1
\* Lines a child writes to its stdout and stderr.
MaxLines == 1
\* Capacity of the event channel (100 in process.rs:42).
QueueCap == 1

Projects == {"alpha", "beta"}
\* The widest specification runs one command more than MaxProcs.
ProcIds == 1..(MaxProcs + 1)
\* The port the command of spawn p binds, if it binds one.
PortOf(p) == p

\* The proxy request tasks and the Host headers they carry: a header is the
\* sequence of its '.'-separated labels, <<"">> for a request without one
\* (unwrap_or("")).
ReqIds == {1}
Hosts == {<<"alpha", "localhost:8080">>, <<"beta", "localhost">>, <<"localhost">>,
          <<"localhost:8080">>, <<"">>}

None == {}
Some(x) == {x}

\* What child.wait() can return for a child that exited: an exit status with
\* a code or an exit by signal. (It can also return an io error, "error".)
ExitResults == {"exit0", "exit1", "signal"}

VARIABLES
    processes,      \* ProcessManager.processes: process_id -> ProcessInfo
    nextId,         \* the next process_id spawn draws
    registry,       \* Registry.projects: name -> Project (its port)
    routing_table,  \* RoutingTable: name -> port
    queue,          \* the mpsc channel of ProcessEvent
    child,          \* per spawned child: "none", "running", "signalled", "zombie", "reaped"
    waitTask,       \* per child: the wait task's position
    probe,          \* per child: the probe task's position
    proxy,          \* per proxy request task: its position and locals
    sentExited,     \* history: Exited events sent per process_id (capped at 2)
    sentPort,       \* history: PortDetected events sent per process_id (capped at 2)
    consumedExited, \* history: Exited events consumed by the Event Router (capped at 2)
    lastPort,       \* history: per project, the port of the PortDetected processed last
    exitedSince,    \* history: per project, an Exited was processed after that PortDetected
    response,       \* the IpcResponse of the IPC request handled last
    createWrites,   \* history: writes of project.json by Registry::create, per name (capped at 2)
    validation,     \* a call of validate_project_name: its argument and its result
    connection,     \* the IPC connection served last: its line and the responses written
    disk,           \* the projects directory: name -> the content of its project.json
    restarts,       \* how often the daemon was started again
    detection,      \* a call of detect_port: the lsof row it reads and its result
    finding,        \* a call of find_by_project: its argument and its result
    request,        \* the StopProcess request decoded last: its project_name and process_id, and the parity of its number
    mutex,          \* Mutex<DaemonState>: "free" or its holder, "ipc" or "router"
    router,         \* process_event_handler: its position and the event it received
    spawning,       \* the spawn a RunCommand handler is in the middle of
    output          \* per child: the lines its stdout and stderr readers have sent

vars == <<processes, nextId, registry, routing_table, queue, child, waitTask,
          probe, proxy, sentExited, sentPort, consumedExited, lastPort,
          exitedSince, response, createWrites, validation, connection, disk,
          restarts, detection, finding, request, mutex, router, spawning,
          output>>

\* The state lock and what is written only by the steps that take it one by
\* one.
lockVars == <<mutex, router, spawning, output>>

\* What neither an IPC request nor a task writes.
idleVars == <<restarts, detection, finding, request, lockVars>>

\* What the tasks and the Event Router never write.
ipcVars == <<response, createWrites, validation, connection, idleVars>>

histVars == <<sentExited, sentPort, consumedExited, lastPort, exitedSince>>

Bump(n) == IF n < 2 THEN n + 1 ELSE 2

\* ------------------------------------------------------------ pure parts
\* wait task: status.ok().and_then(|s| s.code())
ExitCodeOf(w) ==
    CASE w = "exit0" -> Some(0)
      [] w = "exit1" -> Some(1)
      [] w = "signal" -> None
      [] w = "error" -> None

\* Mutant of ExitStatus: a missing exit code counts as 0 (unwrap_or(0)).
ExitStatusOrZero(exit_code) == IF exit_code \subseteq {0} THEN "Stopped" ELSE "Failed"

\* Event Router: if exit_code == Some(0) { Stopped } else { Failed }
ExitStatus(exit_code) == IF exit_code = Some(0) THEN "Stopped" ELSE "Failed"

\* proxy: host.split('.').next().unwrap_or("")
ProjectNameOf(host) == IF host = <<>> THEN "" ELSE host[1]

\* Mutant of Lookup: the table is asked for the whole Host value, which is
\* never a key.
LookupByHost(table, name) == None

\* proxy: table.get(&project_name).copied()
Lookup(table, name) == IF name \in DOMAIN table THEN Some(table[name]) ELSE None

\* Mutant of Install: entry(name).or_insert(port), the first port stays.
InstallIfAbsent(table, name, port) ==
    [n \in DOMAIN table \cup {name} |-> IF n \in DOMAIN table THEN table[n] ELSE port]

\* routing table: table.insert(name, port)
Install(table, name, port) ==
    [n \in DOMAIN table \cup {name} |-> IF n = name THEN port ELSE table[n]]

\* routing table: table.remove(&name)
Remove(table, name) == [n \in DOMAIN table \ {name} |-> table[n]]

\* proxy: the responses it builds itself, and the one a backend gives.
NoReply == [status |-> 0, body |-> ""]
NotFoundResponse(message) == [status |-> 404, body |-> message]

\* Mutant of ErrorResponse: a failed forward is answered like a missing route.
ErrorResponseNotFound(message) == [status |-> 404, body |-> message]

ErrorResponse(message) == [status |-> 502, body |-> message]
BackendResponse == [status |-> 200, body |-> "backend"]

\* A proxy request task: its position, the project name it extracted, whether
\* it read the routing table and the port it saw there, the port it opened a
\* backend connection to and how that went, and its response. (valid is
\* history: the routes a correct lookup may see.)
IdleReq == [pc |-> "idle", name |-> "", seen |-> None, valid |-> {},
            consulted |-> FALSE, target |-> None, conn |-> "none",
            resp |-> NoReply]

\* ---------------------------------------------------------- IPC responses
\* IpcResponse: its variant, the message of an Error, and the project name or
\* process_id it carries ("" and 0 when it carries none).
NoResponse == [type |-> "None", message |-> "", name |-> "", process_id |-> 0]
ResponseProject(name) ==
    [type |-> "Project", message |-> "", name |-> name, process_id |-> 0]
ProcessStarted(id) ==
    [type |-> "ProcessStarted", message |-> "", name |-> "", process_id |-> id]
Success(id) ==
    [type |-> "Success", message |-> "stopped", name |-> "", process_id |-> id]
IpcError(message, name, id) ==
    [type |-> "Error", message |-> message, name |-> name, process_id |-> id]
ShuttingDown ==
    [type |-> "Success", message |-> "Shutting down", name |-> "", process_id |-> 0]
ResponseProjects(names) ==
    [type |-> "Projects", message |-> "", name |-> "", process_id |-> 0,
     names |-> names]
ResponseProcesses(ids) ==
    [type |-> "Processes", message |-> "", name |-> "", process_id |-> 0,
     ids |-> ids]
StatusResponse(project_count, process_count) ==
    [type |-> "Status", message |-> "", name |-> "", process_id |-> 0,
     project_count |-> project_count, process_count |-> process_count]

\* handle_connection: the line a client sent ("request" decodes as an
\* IpcRequest, "garbage" is text that does not, "not_utf8" is a line of bytes
\* that are no UTF-8 text, "empty" is a connection closed without a line) and
\* the number of responses written back. read_line fails on bytes that are
\* not UTF-8 and handle_connection returns its error before it writes.
NoConnection == [line |-> "none", responses |-> 0]
Served(line) ==
    [line |-> line,
     responses |-> IF line \in {"empty", "not_utf8"} THEN 0 ELSE 1]

\* The lines of a connection that reach no request handler.
UnhandledLines == {"garbage", "not_utf8", "empty"}

\* --------------------------------------------------- the registry on disk
\* Project::new(name, root_dir): the Uuid and the creation time are modelled
\* by the number of the create that drew them.
NewProject(name, serial) ==
    [name |-> name, id |-> serial, created_at |-> serial,
     root_dir |-> <<"root", name>>, port |-> None]

\* serde_json::to_string_pretty(project): the port is null or a number, here
\* the empty or the one-element sequence.
ToJson(project) ==
    [name |-> project.name, id |-> project.id, created_at |-> project.created_at,
     root_dir |-> project.root_dir,
     port |-> IF project.port = None THEN <<>>
              ELSE <<CHOOSE v \in project.port : TRUE>>]

\* serde_json::from_str::<Project>(content)
FromJson(json) ==
    [name |-> json.name, id |-> json.id, created_at |-> json.created_at,
     root_dir |-> json.root_dir,
     port |-> IF json.port = <<>> THEN None ELSE Some(json.port[1])]

\* Mutant of SaveProject: the directory is written, project.json is not.
SaveProjectNowhere(files, project) == files

\* Registry::save_project: project.json of the project's directory is written.
SaveProject(files, project) ==
    [n \in DOMAIN files \cup {project.name} |->
        IF n = project.name THEN ToJson(project) ELSE files[n]]

\* Registry::load_all: every project.json is read and inserted under the
\* name it holds.
LoadAll(files) ==
    LET loaded == {FromJson(files[n]) : n \in DOMAIN files}
    IN [name \in {project.name : project \in loaded} |->
            CHOOSE project \in loaded : project.name = name]

\* ------------------------------------------------- project name validation
\* A name is the sequence of its characters. "e_acute" is U+00E9 and
\* "arabic_3" is U+0663: alphanumeric for char::is_alphanumeric, two bytes
\* each in UTF-8.
AsciiLetters == {"a", "b", "c", "e", "h", "l", "o", "p", "s", "t", "Z"}
AsciiDigits == {"0", "7", "8"}
UnicodeAlphanumerics == {"e_acute", "arabic_3"}

\* char::is_alphanumeric
IsAlphanumeric(c) == c \in AsciiLetters \cup AsciiDigits \cup UnicodeAlphanumerics

\* char::len_utf8
Utf8Len(c) == IF c \in UnicodeAlphanumerics THEN 2 ELSE 1

\* str::len: the length in bytes
RECURSIVE ByteLen(_)
ByteLen(name) == IF name = <<>> THEN 0 ELSE Utf8Len(Head(name)) + ByteLen(Tail(name))

\* The longest name validate_project_name accepts, in bytes.
NameLimit == 64

\* Mutant of ValidateProjectName: every name is accepted.
ValidateAnyName(name) == "ok"

\* validate_project_name: "ok" or the message of the error it returns.
ValidateProjectName(name) ==
    IF name = <<>> THEN "Project name cannot be empty"
    ELSE IF ByteLen(name) > NameLimit THEN "Project name cannot exceed 64 characters"
    ELSE IF ~(\A i \in 1..Len(name) :
                IsAlphanumeric(name[i]) \/ name[i] = "-" \/ name[i] = "_")
         THEN "Project name can only contain alphanumeric characters, hyphens, and underscores"
    ELSE IF name[1] = "-" \/ name[1] = "_"
         THEN "Project name cannot start with a hyphen or underscore"
    ELSE "ok"

\* The characters of the names the IPC requests carry.
TextOf(name) ==
    CASE name = "alpha" -> <<"a", "l", "p", "h", "a">>
      [] name = "beta" -> <<"b", "e", "t", "a">>
      [] name = "localhost:8080" ->
            <<"l", "o", "c", "a", "l", "h", "o", "s", "t", ":", "8", "0", "8", "0">>

\* The names create_project is asked for: the projects and a name that is
\* what the proxy extracts from `Host: localhost:8080`.
RequestedNames == Projects \cup {"localhost:8080"}

\* The arguments validate_project_name is called with: every text of at most
\* MaxText characters of ValidationChars, followed by a run of "a".
ValidationChars == {"a", "Z", "7", "-", "_", " ", ".", "e_acute"}
PadLens == {0, NameLimit - 2, NameLimit - 1, NameLimit}
Pad(n) == [i \in 1..n |-> "a"]
Texts == UNION {[1..k -> ValidationChars] : k \in 0..MaxText}
NameInputs == {t \o Pad(n) : t \in Texts, n \in PadLens}

NotValidated == [name |-> <<>>, result |-> "pending"]

\* ---------------------------------------------------------- detect_port
\* A string is the sequence of its characters, a row of the lsof output the
\* sequence of its whitespace-separated parts (str::split_whitespace).
DecimalDigit ==
    [ch \in {"0", "1", "2", "3", "4", "5", "6", "7", "8", "9"} |->
        CASE ch = "0" -> 0 [] ch = "1" -> 1 [] ch = "2" -> 2 [] ch = "3" -> 3
          [] ch = "4" -> 4 [] ch = "5" -> 5 [] ch = "6" -> 6 [] ch = "7" -> 7
          [] ch = "8" -> 8 [] ch = "9" -> 9]

RECURSIVE DecimalValue(_)
DecimalValue(str) ==
    IF str = <<>> THEN 0
    ELSE 10 * DecimalValue(SubSeq(str, 1, Len(str) - 1)) + DecimalDigit[str[Len(str)]]

\* str::parse::<u16>: an optional "+", then one or more decimal digits whose
\* value fits sixteen bits; everything else is an error.
ParseU16(str) ==
    LET digits == IF str # <<>> /\ str[1] = "+" THEN Tail(str) ELSE str
    IN IF \/ digits = <<>>
          \/ \E i \in DOMAIN digits : digits[i] \notin DOMAIN DecimalDigit
       THEN None
       ELSE IF DecimalValue(digits) > 65535 THEN None
            ELSE Some(DecimalValue(digits))

\* part.rsplit(':').next(): what follows the last ':' of the part, the whole
\* part when it has none.
AfterLastColon(part) ==
    LET colons == {i \in DOMAIN part : part[i] = ":"}
    IN IF colons = {} THEN part
       ELSE SubSeq(part, (CHOOSE i \in colons : \A j \in colons : j <= i) + 1,
                   Len(part))

Listen == <<"(", "L", "I", "S", "T", "E", "N", ")">>

\* line.contains("(LISTEN)"): the needle holds no whitespace, so it lies
\* within one part of the line.
ContainsListen(row) ==
    \E k \in DOMAIN row : \E i \in 1..(Len(row[k]) - Len(Listen) + 1) :
        SubSeq(row[k], i, i + Len(Listen) - 1) = Listen

\* The inner loop of detect_port: the parts of the row from the last to the
\* first, "(LISTEN)" skipped, the first whose suffix parses is the port.
PortOfRow(row) ==
    LET parsed == {k \in DOMAIN row :
                      row[k] # Listen /\ ParseU16(AfterLastColon(row[k])) # None}
    IN IF parsed = {} THEN None
       ELSE ParseU16(AfterLastColon(
                row[CHOOSE k \in parsed : \A j \in parsed : j <= k]))

\* detect_port on the output of lsof: the first row that contains "(LISTEN)"
\* and has a part that parses decides.
detect_port(stdout) ==
    LET found == {i \in DOMAIN stdout :
                     ContainsListen(stdout[i]) /\ PortOfRow(stdout[i]) # None}
    IN IF found = {} THEN None
       ELSE PortOfRow(stdout[CHOOSE i \in found : \A j \in found : i <= j])

\* Rows of lsof -i -P -n -a -p <pid>, reduced to the columns PID, NODE, NAME
\* and the state: the pid of the child, TCP, an address and "(LISTEN)",
\* "(CLOSED)" or nothing.
LsofPids == {<<"7">>, <<"7", "0", "0", "0", "0">>}
LsofPorts == {<<"0">>, <<"8", "0">>, <<"6", "5", "5", "3", "5">>,
              <<"6", "5", "5", "3", "6">>, <<"h", "t", "t", "p">>, <<>>,
              <<"+", "8", "0">>}
LsofNames == {<<"*", ":">> \o port : port \in LsofPorts}
                \cup {<<"[", ":", ":", "1", "]", ":", "8", "0">>}
LsofStates == {<<Listen>>, <<<<"(", "C", "L", "O", "S", "E", "D", ")">>>>, <<>>}
LsofRows == {<<pid, <<"T", "C", "P">>, name>> \o state :
                pid \in LsofPids, name \in LsofNames, state \in LsofStates}
LsofOutputs == UNION {[1..n -> LsofRows] : n \in 0..MaxRows}

\* No call of detect_port, no call of find_by_project.
NotDetected == [stdout |-> <<>>, done |-> TRUE, result |-> None]
NotCalled == [name |-> "", result |-> None]

\* No StopProcess request decoded; the Event Router waiting in recv.
NoRequest == [project_name |-> "", process_id |-> 0, serial |-> 0]
NoEvent == [type |-> "None", process_id |-> 0, val |-> None]
RouterIdle == [pc |-> "recv", event |-> NoEvent]

\* The daemon after DaemonState::new with an empty projects directory.
Started ==
    /\ processes = <<>>
    /\ nextId = 1
    /\ registry = <<>>
    /\ routing_table = <<>>
    /\ queue = <<>>
    /\ child = [p \in ProcIds |-> "none"]
    /\ waitTask = [p \in ProcIds |-> "none"]
    /\ probe = [p \in ProcIds |-> [pc |-> "none", polls |-> 0, port |-> None]]
    /\ proxy = [r \in ReqIds |-> IdleReq]
    /\ sentExited = [p \in ProcIds |-> 0]
    /\ sentPort = [p \in ProcIds |-> 0]
    /\ consumedExited = [p \in ProcIds |-> 0]
    /\ lastPort = [n \in Projects |-> None]
    /\ exitedSince = [n \in Projects |-> FALSE]
    /\ response = NoResponse
    /\ createWrites = [n \in RequestedNames |-> 0]
    /\ connection = NoConnection
    /\ disk = <<>>
    /\ restarts = 0
    /\ finding = NotCalled
    /\ request = NoRequest
    /\ mutex = "free"
    /\ router = RouterIdle
    /\ spawning = None
    /\ output = [p \in ProcIds |-> 0]

Init == Started /\ validation = NotValidated /\ detection = NotDetected

\* The same, with a call of validate_project_name pending.
InitValidate ==
    /\ Started
    /\ detection = NotDetected
    /\ \E name \in NameInputs : validation = [name |-> name, result |-> "pending"]

\* The same, with a call of detect_port pending on some output of lsof.
InitDetect ==
    /\ Started
    /\ validation = NotValidated
    /\ \E stdout \in LsofOutputs :
            detection = [stdout |-> stdout, done |-> FALSE, result |-> None]

Full == Len(queue) >= QueueCap
Alive(p) == child[p] \in {"running", "signalled"}

PortDetected(p, port) == [type |-> "PortDetected", process_id |-> p, val |-> Some(port)]
Exited(p, exit_code) == [type |-> "Exited", process_id |-> p, val |-> exit_code]
Output(p) == [type |-> "Output", process_id |-> p, val |-> None]

\* The route of `name` that the last completed install or remove left.
RouteNow(name) == IF name \in DOMAIN routing_table THEN {routing_table[name]} ELSE {}

\* A route of `name` is written while a proxy lookup of `name` is in flight:
\* the lookup may observe the value written.
Written(name, v) ==
    [r \in ReqIds |->
        IF proxy[r].pc = "lookup" /\ proxy[r].name = name
        THEN [proxy[r] EXCEPT !.valid = @ \cup {v}]
        ELSE proxy[r]]

\* ------------------------------------------------------------ IPC requests
\* CreateProject, holding the state lock: Registry::create of a valid name
\* that is not taken writes project.json, inserts the project and returns it.
CreateProject(name) ==
    /\ ValidateProjectName(TextOf(name)) = "ok"
    /\ name \notin DOMAIN registry
    /\ LET project == NewProject(name, Cardinality(DOMAIN registry) + 1)
       IN /\ disk' = SaveProject(disk, project)
          /\ registry' = [n \in DOMAIN registry \cup {name} |->
                              IF n = name THEN project ELSE registry[n]]
    /\ createWrites' = [createWrites EXCEPT ![name] = Bump(@)]
    /\ response' = ResponseProject(name)
    /\ UNCHANGED <<processes, nextId, routing_table, queue, waitTask, probe,
                   proxy, child, histVars, validation, idleVars>>
    /\ connection' = Served("request")

\* CreateProject of a name validate_project_name rejects: the error is
\* returned before the registry is read.
CreateProjectInvalid(name) ==
    /\ ValidateProjectName(TextOf(name)) # "ok"
    /\ response' = IpcError(ValidateProjectName(TextOf(name)), name, 0)
    /\ UNCHANGED <<processes, nextId, registry, routing_table, queue, waitTask,
                   probe, proxy, child, histVars, createWrites, validation, idleVars>>
    /\ connection' = Served("request")
    /\ UNCHANGED disk

\* Mutant of CreateProjectExists: the taken name is created again, project.json
\* is written over and the new project replaces the old one.
CreateProjectAgain(name) ==
    /\ ValidateProjectName(TextOf(name)) = "ok"
    /\ name \in DOMAIN registry
    /\ LET project == NewProject(name, Cardinality(DOMAIN registry) + 1)
       IN /\ disk' = SaveProject(disk, project)
          /\ registry' = [registry EXCEPT ![name] = project]
    /\ createWrites' = [createWrites EXCEPT ![name] = Bump(@)]
    /\ response' = ResponseProject(name)
    /\ UNCHANGED <<processes, nextId, routing_table, queue, waitTask, probe,
                   proxy, child, histVars, validation, idleVars>>
    /\ connection' = Served("request")

\* CreateProject of a valid name that is taken: Registry::create bails with
\* "Project '<name>' already exists" before anything is written.
CreateProjectExists(name) ==
    /\ ValidateProjectName(TextOf(name)) = "ok"
    /\ name \in DOMAIN registry
    /\ response' = IpcError("already exists", name, 0)
    /\ UNCHANGED <<processes, nextId, registry, routing_table, queue, waitTask,
                   probe, proxy, child, histVars, createWrites, validation, idleVars>>
    /\ connection' = Served("request")
    /\ UNCHANGED disk

\* ProcessManager::spawn once cmd.spawn() succeeded: the wait task and the
\* probe task of the new child are started.
StartTasks(id) ==
    /\ nextId' = nextId + 1
    /\ child' = [child EXCEPT ![id] = "running"]
    /\ waitTask' = [waitTask EXCEPT ![id] = "waiting"]
    /\ probe' = [probe EXCEPT ![id] = [pc |-> "polling", polls |-> 0, port |-> None]]

\* RunCommand for a project of the registry, holding the state lock, when
\* Utc::now() is `now`: spawn starts the child and its tasks, inserts the
\* record with status Running and no port, and returns its ProcessInfo.
RunCommandAt(name, limit, now) ==
    /\ nextId <= limit
    /\ name \in DOMAIN registry
    /\ StartTasks(nextId)
    /\ LET info == [project_name |-> name, pid |-> nextId, started_at |-> now,
                    port |-> None, status |-> "Running"]
       IN processes' = [p \in DOMAIN processes \cup {nextId} |->
                            IF p = nextId THEN info ELSE processes[p]]
    /\ response' = ProcessStarted(nextId)
    /\ UNCHANGED <<registry, routing_table, queue, proxy, histVars,
                   createWrites, validation, idleVars>>
    /\ connection' = Served("request")
    /\ UNCHANGED disk

\* RunCommand with a clock that advances from one spawn to the next.
RunCommand(name, limit) == RunCommandAt(name, limit, nextId)

\* Mutant of RunCommandNoProject: the command of an unknown project is run
\* all the same.
RunCommandNoProjectSpawns(name) ==
    /\ nextId <= MaxProcs
    /\ name \notin DOMAIN registry
    /\ StartTasks(nextId)
    /\ LET info == [project_name |-> name, pid |-> nextId, started_at |-> nextId,
                    port |-> None, status |-> "Running"]
       IN processes' = [p \in DOMAIN processes \cup {nextId} |->
                            IF p = nextId THEN info ELSE processes[p]]
    /\ response' = ProcessStarted(nextId)
    /\ connection' = Served("request")
    /\ UNCHANGED <<registry, routing_table, queue, proxy, histVars,
                   createWrites, validation, idleVars, disk>>

\* RunCommand for a name the registry does not hold: "Project '<name>' not
\* found" is returned before spawn is called.
RunCommandNoProject(name) ==
    /\ name \notin DOMAIN registry
    /\ response' = IpcError("not found", name, 0)
    /\ UNCHANGED <<processes, nextId, registry, routing_table, queue, waitTask,
                   probe, proxy, child, histVars, createWrites, validation, idleVars>>
    /\ connection' = Served("request")
    /\ UNCHANGED disk

\* Mutant of RunCommandSpawnFails: the command that could not be started is
\* recorded as a Failed process before the error is returned.
RunCommandSpawnFailsRecorded(name, limit) ==
    /\ nextId <= limit
    /\ name \in DOMAIN registry
    /\ nextId' = nextId + 1
    /\ LET info == [project_name |-> name, pid |-> nextId, started_at |-> nextId,
                    port |-> None, status |-> "Failed"]
       IN processes' = [p \in DOMAIN processes \cup {nextId} |->
                            IF p = nextId THEN info ELSE processes[p]]
    /\ response' = IpcError("Failed to spawn process", name, 0)
    /\ UNCHANGED <<registry, routing_table, queue, waitTask, probe, proxy,
                   child, histVars, createWrites, validation, idleVars>>
    /\ connection' = Served("request")
    /\ UNCHANGED disk

\* RunCommand whose command or working directory does not exist: cmd.spawn()
\* fails and spawn returns "Failed to spawn process" before a task is
\* started or a record is inserted. (The process_id drawn is dropped.)
RunCommandSpawnFails(name, limit) ==
    /\ nextId <= limit
    /\ name \in DOMAIN registry
    /\ response' = IpcError("Failed to spawn process", name, 0)
    /\ UNCHANGED <<processes, nextId, registry, routing_table, queue, waitTask,
                   probe, proxy, child, histVars, createWrites, validation, idleVars>>
    /\ connection' = Served("request")
    /\ UNCHANGED disk

\* RunCommand where Command::new("true").spawn()? fails: spawn returns the
\* error and inserts no record; the tasks started before it keep running.
RunCommandPlaceholderFails(name, limit) ==
    /\ nextId <= limit
    /\ name \in DOMAIN registry
    /\ StartTasks(nextId)
    /\ response' = IpcError("os error", name, 0)
    /\ UNCHANGED <<processes, registry, routing_table, queue, proxy, histVars,
                   createWrites, validation, idleVars>>
    /\ connection' = Served("request")
    /\ UNCHANGED disk

\* Mutant of Stop: stop also clears the port of the record.
StopClearsPort(p) ==
    /\ p \in DOMAIN processes
    /\ child' = [child EXCEPT ![p] = IF Alive(p) THEN "signalled" ELSE @]
    /\ processes' = [processes EXCEPT ![p].status = "Stopped", ![p].port = None]
    /\ response' = Success(p)
    /\ UNCHANGED <<nextId, registry, routing_table, queue, waitTask,
                   probe, proxy, histVars, createWrites, validation, idleVars>>
    /\ connection' = Served("request")
    /\ UNCHANGED disk

\* Mutant of Stop: stop also removes the route of the record's project.
StopRemovesRoute(p) ==
    /\ p \in DOMAIN processes
    /\ child' = [child EXCEPT ![p] = IF Alive(p) THEN "signalled" ELSE @]
    /\ processes' = [processes EXCEPT ![p].status = "Stopped"]
    /\ routing_table' = Remove(routing_table, processes[p].project_name)
    /\ response' = Success(p)
    /\ UNCHANGED <<nextId, registry, queue, waitTask, probe, proxy, histVars,
                   createWrites, validation, idleVars>>
    /\ connection' = Served("request")
    /\ UNCHANGED disk

\* StopProcess: ProcessManager::stop on a known record whose kill(pid, SIGTERM)
\* succeeds: the signal reaches the live child, is a no-op on a zombie, or
\* reaches whatever process now has the pid of a reaped child. (When kill
\* fails, stop returns the error before the status is written.)
Stop(p) ==
    /\ p \in DOMAIN processes
    /\ child' = [child EXCEPT ![p] = IF Alive(p) THEN "signalled" ELSE @]
    /\ processes' = [processes EXCEPT ![p].status = "Stopped"]
    /\ response' = Success(p)
    /\ UNCHANGED <<nextId, registry, routing_table, queue, waitTask,
                   probe, proxy, histVars, createWrites, validation, idleVars>>
    /\ connection' = Served("request")
    /\ UNCHANGED disk

\* StopProcess of a process_id that has no record: "Process not found".
StopNotFound(p) ==
    /\ p \notin DOMAIN processes
    /\ response' = IpcError("Process not found", "", p)
    /\ UNCHANGED <<processes, nextId, registry, routing_table, queue, waitTask,
                   probe, proxy, child, histVars, createWrites, validation, idleVars>>
    /\ connection' = Served("request")
    /\ UNCHANGED disk

\* Mutant of StopKillFails: the status is written before the signal is sent.
StopKillFailsMarked(p) ==
    /\ p \in DOMAIN processes
    /\ child[p] = "reaped"
    /\ processes' = [processes EXCEPT ![p].status = "Stopped"]
    /\ response' = IpcError("Failed to send SIGTERM", "", p)
    /\ UNCHANGED <<nextId, registry, routing_table, queue, waitTask,
                   probe, proxy, child, histVars, createWrites, validation, idleVars>>
    /\ connection' = Served("request")
    /\ UNCHANGED disk

\* StopProcess of a record whose child was reaped and whose pid is free:
\* kill(pid, SIGTERM) fails with ESRCH and stop returns "Failed to send
\* SIGTERM" before the status is written.
StopKillFails(p) ==
    /\ p \in DOMAIN processes
    /\ child[p] = "reaped"
    /\ response' = IpcError("Failed to send SIGTERM", "", p)
    /\ UNCHANGED <<processes, nextId, registry, routing_table, queue, waitTask,
                   probe, proxy, child, histVars, createWrites, validation, idleVars>>
    /\ connection' = Served("request")
    /\ UNCHANGED disk

\* Mutant of StopProcess: a process_id whose record belongs to another
\* project than the request names is refused.
StopProcessOfProject(project_name, p) ==
    /\ request' = [project_name |-> project_name, process_id |-> p,
                   serial |-> 1 - request.serial]
    /\ IF p \notin DOMAIN processes
       THEN /\ response' = IpcError("Process not found", "", p)
            /\ UNCHANGED <<processes, child>>
       ELSE IF processes[p].project_name # project_name
       THEN /\ response' = IpcError("Process not found", "", p)
            /\ UNCHANGED <<processes, child>>
       ELSE \/ /\ child' = [child EXCEPT ![p] = IF Alive(p) THEN "signalled" ELSE @]
               /\ processes' = [processes EXCEPT ![p].status = "Stopped"]
               /\ response' = Success(p)
            \/ /\ child[p] = "reaped"
               /\ response' = IpcError("Failed to send SIGTERM", "", p)
               /\ UNCHANGED <<processes, child>>
    /\ connection' = Served("request")
    /\ UNCHANGED <<nextId, registry, routing_table, queue, waitTask, probe,
                   proxy, histVars, createWrites, validation, disk, restarts,
                   detection, finding, lockVars>>

\* The StopProcess arm of handle_request for a request that carries
\* project_name and process_id: the project_name is bound to `_` and
\* ProcessManager::stop gets the process_id alone. Its three outcomes are
\* those of StopNotFound, Stop and StopKillFails.
StopProcess(project_name, p) ==
    /\ request' = [project_name |-> project_name, process_id |-> p,
                   serial |-> 1 - request.serial]
    /\ IF p \notin DOMAIN processes
       THEN /\ response' = IpcError("Process not found", "", p)
            /\ UNCHANGED <<processes, child>>
       ELSE \/ /\ child' = [child EXCEPT ![p] = IF Alive(p) THEN "signalled" ELSE @]
               /\ processes' = [processes EXCEPT ![p].status = "Stopped"]
               /\ response' = Success(p)
            \/ /\ child[p] = "reaped"
               /\ response' = IpcError("Failed to send SIGTERM", "", p)
               /\ UNCHANGED <<processes, child>>
    /\ connection' = Served("request")
    /\ UNCHANGED <<nextId, registry, routing_table, queue, waitTask, probe,
                   proxy, histVars, createWrites, validation, disk, restarts,
                   detection, finding, lockVars>>

\* Mutant of Shutdown: the request signals every live child.
ShutdownSignalsChildren ==
    /\ response' = ShuttingDown
    /\ connection' = Served("request")
    /\ child' = [p \in ProcIds |-> IF Alive(p) THEN "signalled" ELSE child[p]]
    /\ UNCHANGED <<processes, nextId, registry, routing_table, queue, waitTask,
                   probe, proxy, histVars, createWrites, validation,
                   idleVars, disk>>

\* The Shutdown arm of handle_request: it logs and answers Success
\* "Shutting down"; it does not take the state lock and tells no one.
Shutdown ==
    /\ response' = ShuttingDown
    /\ connection' = Served("request")
    /\ UNCHANGED <<processes, nextId, registry, routing_table, queue, waitTask,
                   probe, proxy, child, histVars, createWrites, validation,
                   idleVars, disk>>

\* ListProjects, holding the state lock: the projects of the registry.
ListProjects ==
    /\ response' = ResponseProjects(DOMAIN registry)
    /\ connection' = Served("request")
    /\ UNCHANGED <<processes, nextId, registry, routing_table, queue, waitTask,
                   probe, proxy, child, histVars, createWrites, validation,
                   idleVars, disk>>

\* GetProject, holding the state lock: the project or "Project '..' not found".
GetProject(name) ==
    /\ response' = IF name \in DOMAIN registry THEN ResponseProject(name)
                   ELSE IpcError("not found", name, 0)
    /\ connection' = Served("request")
    /\ UNCHANGED <<processes, nextId, registry, routing_table, queue, waitTask,
                   probe, proxy, child, histVars, createWrites, validation,
                   idleVars, disk>>

\* ListProcesses, holding the state lock: the records of the project named,
\* or all records when the request names none.
ListProcesses(project_name) ==
    /\ response' = ResponseProcesses(
            {p \in DOMAIN processes :
                project_name = None \/ Some(processes[p].project_name) = project_name})
    /\ connection' = Served("request")
    /\ UNCHANGED <<processes, nextId, registry, routing_table, queue, waitTask,
                   probe, proxy, child, histVars, createWrites, validation,
                   idleVars, disk>>

\* Mutant of RunningCount: every record is counted.
RecordCount(procs) == Cardinality(DOMAIN procs)

\* ProcessManager::running_count: the records are visited one by one and
\* those with status Running are counted.
RunningCount(procs) ==
    LET RECURSIVE Count(_)
        Count(ids) ==
            IF ids = {} THEN 0
            ELSE LET p == CHOOSE q \in ids : TRUE
                 IN (IF procs[p].status = "Running" THEN 1 ELSE 0) + Count(ids \ {p})
    IN Count(DOMAIN procs)

\* Status: the number of projects and running_count().
Status ==
    /\ response' = StatusResponse(Cardinality(DOMAIN registry), RunningCount(processes))
    /\ connection' = Served("request")
    /\ UNCHANGED <<processes, nextId, registry, routing_table, queue, waitTask,
                   probe, proxy, child, histVars, createWrites, validation,
                   idleVars, disk>>

\* handle_connection for a line that reaches no handler: a line that serde
\* does not decode is answered with Error "Invalid request: ..", the other
\* two end the connection with nothing written. The state lock is not taken.
UnhandledLine(line) ==
    /\ connection' = Served(line)
    /\ response' = IF line = "garbage" THEN IpcError("invalid request", "", 0)
                   ELSE response
    /\ UNCHANGED <<processes, nextId, registry, routing_table, queue, waitTask,
                   probe, proxy, child, histVars, createWrites, validation,
                   idleVars, disk>>

\* ProcessManager::find_by_project: the Running records of the project are
\* visited in the order of the HashMap and max_by_key keeps the last of those
\* with the greatest started_at; the order of a HashMap is arbitrary, so every
\* record with the greatest started_at is a possible result.
FindByProject(procs, name) ==
    LET running == {p \in DOMAIN procs :
                        procs[p].project_name = name /\ procs[p].status = "Running"}
        latest == {p \in running :
                        \A q \in running : procs[q].started_at <= procs[p].started_at}
    IN IF running = {} THEN {None} ELSE {Some(p) : p \in latest}

\* A call of find_by_project(name) returns.
Find(name) ==
    /\ \E result \in FindByProject(processes, name) :
            finding' = [name |-> name, result |-> result]
    /\ UNCHANGED <<processes, nextId, registry, routing_table, queue, waitTask,
                   probe, proxy, child, histVars, response, createWrites,
                   validation, connection, disk, restarts, detection, request,
                   lockVars>>

\* A call of detect_port returns.
Detect ==
    /\ ~detection.done
    /\ detection' = [detection EXCEPT !.done = TRUE,
                                      !.result = detect_port(detection.stdout)]
    /\ UNCHANGED <<processes, nextId, registry, routing_table, queue, waitTask,
                   probe, proxy, child, histVars, response, createWrites,
                   validation, connection, disk, restarts, finding, request,
                   lockVars>>

\* A call of validate_project_name returns.
Validate ==
    /\ validation.result = "pending"
    /\ validation' = [validation EXCEPT !.result = ValidateProjectName(validation.name)]
    /\ UNCHANGED <<processes, nextId, registry, routing_table, queue, waitTask,
                   probe, proxy, child, histVars, response, createWrites, connection,
                   disk, idleVars>>

\* ------------------------------------------------------------ the children
\* A child exits on its own or is killed out-of-band; its sockets close.
ChildExit(p) ==
    /\ child[p] = "running"
    /\ child' = [child EXCEPT ![p] = "zombie"]
    /\ UNCHANGED <<processes, nextId, registry, routing_table, queue,
                   waitTask, probe, proxy, histVars>>
    /\ UNCHANGED ipcVars
    /\ UNCHANGED disk

\* A child that received SIGTERM from stop terminates.
ChildTerminate(p) ==
    /\ child[p] = "signalled"
    /\ child' = [child EXCEPT ![p] = "zombie"]
    /\ UNCHANGED <<processes, nextId, registry, routing_table, queue,
                   waitTask, probe, proxy, histVars>>
    /\ UNCHANGED ipcVars
    /\ UNCHANGED disk

\* ------------------------------------------------------------ the wait task
\* Mutant of WaitExited: the task does not end after the send and waits again.
WaitExitedRepeats(p, w) ==
    /\ waitTask[p] = "waiting"
    /\ child[p] = "zombie"
    /\ ~Full
    /\ queue' = Append(queue, Exited(p, ExitCodeOf(w)))
    /\ sentExited' = [sentExited EXCEPT ![p] = Bump(@)]
    /\ UNCHANGED <<processes, nextId, registry, routing_table, probe, proxy, child,
                   waitTask, sentPort, consumedExited, lastPort, exitedSince>>
    /\ UNCHANGED ipcVars
    /\ UNCHANGED disk

\* child_for_wait.wait() returns the status w of the exited child, the task
\* sends Exited{process_id, exit_code} and ends.
WaitExited(p, w) ==
    /\ waitTask[p] = "waiting"
    /\ child[p] = "zombie"
    /\ ~Full
    /\ queue' = Append(queue, Exited(p, ExitCodeOf(w)))
    /\ waitTask' = [waitTask EXCEPT ![p] = "done"]
    /\ child' = [child EXCEPT ![p] = "reaped"]
    /\ sentExited' = [sentExited EXCEPT ![p] = Bump(@)]
    /\ UNCHANGED <<processes, nextId, registry, routing_table, probe,
                   proxy, sentPort, consumedExited, lastPort, exitedSince>>
    /\ UNCHANGED ipcVars
    /\ UNCHANGED disk

\* child_for_wait.wait() returns an io error for the exited child: the task
\* sends Exited{process_id, None} and ends.
WaitFails(p) ==
    /\ waitTask[p] = "waiting"
    /\ child[p] = "zombie"
    /\ ~Full
    /\ queue' = Append(queue, Exited(p, ExitCodeOf("error")))
    /\ waitTask' = [waitTask EXCEPT ![p] = "done"]
    /\ child' = [child EXCEPT ![p] = "reaped"]
    /\ sentExited' = [sentExited EXCEPT ![p] = Bump(@)]
    /\ UNCHANGED <<processes, nextId, registry, routing_table, probe, proxy,
                   sentPort, consumedExited, lastPort, exitedSince>>
    /\ UNCHANGED ipcVars
    /\ UNCHANGED disk

\* ------------------------------------------------------------ the restart
\* Mutant of Restart: the routes are rebuilt from the ports of the loaded
\* projects.
RestartRestoresRoutes ==
    /\ restarts < MaxRestarts
    /\ restarts' = restarts + 1
    /\ registry' = LoadAll(disk)
    /\ processes' = <<>>
    /\ routing_table' =
            [name \in {n \in DOMAIN registry' : registry'[n].port # None} |->
                CHOOSE port \in registry'[name].port : TRUE]
    /\ queue' = <<>>
    /\ child' = [p \in ProcIds |-> IF child[p] = "none" THEN "none" ELSE "reaped"]
    /\ waitTask' = [p \in ProcIds |-> IF waitTask[p] = "none" THEN "none" ELSE "done"]
    /\ probe' = [p \in ProcIds |->
                    IF probe[p].pc = "none" THEN probe[p]
                    ELSE [pc |-> "done", polls |-> probe[p].polls, port |-> None]]
    /\ proxy' = [r \in ReqIds |-> IdleReq]
    /\ lastPort' = [n \in Projects |-> None]
    /\ exitedSince' = [n \in Projects |-> FALSE]
    /\ response' = NoResponse
    /\ connection' = NoConnection
    /\ UNCHANGED <<nextId, disk, sentExited, sentPort, consumedExited,
                   createWrites, validation, detection, finding, request,
                   lockVars>>

\* The daemon ends and main runs again: the runtime drops the tasks with
\* their children (kill_on_drop), the channel and the connections; the new
\* daemon has the registry Registry::new loads from disk, an empty process
\* map, an empty routing table and an empty channel.
Restart ==
    /\ restarts < MaxRestarts
    /\ restarts' = restarts + 1
    /\ registry' = LoadAll(disk)
    /\ processes' = <<>>
    /\ routing_table' = <<>>
    /\ queue' = <<>>
    /\ child' = [p \in ProcIds |-> IF child[p] = "none" THEN "none" ELSE "reaped"]
    /\ waitTask' = [p \in ProcIds |-> IF waitTask[p] = "none" THEN "none" ELSE "done"]
    /\ probe' = [p \in ProcIds |->
                    IF probe[p].pc = "none" THEN probe[p]
                    ELSE [pc |-> "done", polls |-> probe[p].polls, port |-> None]]
    /\ proxy' = [r \in ReqIds |-> IdleReq]
    /\ lastPort' = [n \in Projects |-> None]
    /\ exitedSince' = [n \in Projects |-> FALSE]
    /\ response' = NoResponse
    /\ connection' = NoConnection
    /\ UNCHANGED <<nextId, disk, sentExited, sentPort, consumedExited,
                   createWrites, validation, detection, finding, request,
                   lockVars>>

\* ----------------------------------------------------------- the probe task
\* detect_port(pid): lsof reports the LISTEN port of a live child that has
\* bound one; it reports none for a child that has not, or that is gone.
DetectPort(p) == IF Alive(p) THEN {None, Some(PortOf(p))} ELSE {None}

\* Mutant of ProbePoll: the loop has no last poll.
ProbePollForever(p) ==
    /\ probe[p].pc = "polling"
    /\ \E found \in DetectPort(p) :
        \/ /\ found # None
           /\ probe' = [probe EXCEPT ![p] = [pc |-> "detected", polls |-> @.polls,
                                              port |-> found]]
        \/ /\ found = None
           /\ probe' = [probe EXCEPT ![p] =
                 [pc |-> "polling", polls |-> 0, port |-> None]]
    /\ UNCHANGED <<processes, nextId, registry, routing_table, queue, waitTask,
                   proxy, child, histVars>>
    /\ UNCHANGED ipcVars
    /\ UNCHANGED disk

\* One turn of the poll loop: detect_port(pid) finds a LISTEN port, or finds
\* none and the loop sleeps, ending without an event after the last poll.
ProbePoll(p) ==
    /\ probe[p].pc = "polling"
    /\ \E found \in DetectPort(p) :
        \/ /\ found # None
           /\ probe' = [probe EXCEPT ![p] = [pc |-> "detected", polls |-> @.polls,
                                              port |-> found]]
        \/ /\ found = None
           /\ probe' = [probe EXCEPT ![p] =
                 [pc |-> IF @.polls + 1 >= MaxPolls THEN "done" ELSE "polling",
                  polls |-> @.polls + 1, port |-> None]]
    /\ UNCHANGED <<processes, nextId, registry, routing_table, queue, waitTask,
                   proxy, child, histVars>>
    /\ UNCHANGED ipcVars
    /\ UNCHANGED disk

\* Mutant of ProbeSend: no return after the send, the poll loop goes on.
ProbeSendContinues(p) ==
    /\ probe[p].pc = "detected"
    /\ ~Full
    /\ \E port \in probe[p].port : queue' = Append(queue, PortDetected(p, port))
    /\ probe' = [probe EXCEPT ![p] = [pc |-> "polling", polls |-> 0, port |-> None]]
    /\ sentPort' = [sentPort EXCEPT ![p] = Bump(@)]
    /\ UNCHANGED <<processes, nextId, registry, routing_table, waitTask, proxy,
                   child, sentExited, consumedExited, lastPort, exitedSince>>
    /\ UNCHANGED ipcVars
    /\ UNCHANGED disk

\* tx.send(PortDetected{process_id, port}).await; return
ProbeSend(p) ==
    /\ probe[p].pc = "detected"
    /\ ~Full
    /\ \E port \in probe[p].port : queue' = Append(queue, PortDetected(p, port))
    /\ probe' = [probe EXCEPT ![p] = [pc |-> "done", polls |-> @.polls, port |-> None]]
    /\ sentPort' = [sentPort EXCEPT ![p] = Bump(@)]
    /\ UNCHANGED <<processes, nextId, registry, routing_table, waitTask, proxy,
                   child, sentExited, consumedExited, lastPort, exitedSince>>
    /\ UNCHANGED ipcVars
    /\ UNCHANGED disk

\* ---------------------------------------------------------- the Event Router
\* Mutant of UpdatePort: the port is written to every record.
UpdatePortOfAll(procs, p, port) ==
    [q \in DOMAIN procs |-> [procs[q] EXCEPT !.port = Some(port)]]

\* ProcessManager::update_port
UpdatePort(procs, p, port) ==
    IF p \in DOMAIN procs THEN [procs EXCEPT ![p].port = Some(port)] ELSE procs

\* ProcessManager::update_status
UpdateStatus(procs, p, status) ==
    IF p \in DOMAIN procs THEN [procs EXCEPT ![p].status = status] ELSE procs

\* Registry::update_port: an error (project not found) is logged
RegistryUpdatePort(reg, name, port) ==
    IF name \in DOMAIN reg THEN [reg EXCEPT ![name].port = port] ELSE reg

\* process_event_handler, PortDetected arm.
HandlePortDetected ==
    /\ queue # <<>>
    /\ Head(queue).type = "PortDetected"
    /\ queue' = Tail(queue)
    /\ LET p == Head(queue).process_id
       IN \E port \in Head(queue).val :
            /\ processes' = UpdatePort(processes, p, port)
            /\ IF p \in DOMAIN processes
               THEN LET name == processes[p].project_name
                    IN /\ routing_table' = Install(routing_table, name, port)
                       /\ registry' = RegistryUpdatePort(registry, name, Some(port))
                       /\ disk' = IF name \in DOMAIN registry
                                  THEN SaveProject(disk, registry'[name]) ELSE disk
                       /\ proxy' = Written(name, Some(port))
                       /\ lastPort' = [lastPort EXCEPT ![name] = Some(port)]
                       /\ exitedSince' = [exitedSince EXCEPT ![name] = FALSE]
               ELSE UNCHANGED <<routing_table, registry, disk, proxy, lastPort,
                                exitedSince>>
    /\ UNCHANGED <<nextId, waitTask, probe, child, sentExited, sentPort,
                   consumedExited>>
    /\ UNCHANGED ipcVars

\* Mutant of HandlePortDetectedSaveFails: the error of update_port ends the
\* arm before the route is installed.
HandlePortDetectedSaveAborts ==
    /\ queue # <<>>
    /\ Head(queue).type = "PortDetected"
    /\ Head(queue).process_id \in DOMAIN processes
    /\ processes[Head(queue).process_id].project_name \in DOMAIN registry
    /\ queue' = Tail(queue)
    /\ LET p == Head(queue).process_id
           name == processes[p].project_name
       IN \E port \in Head(queue).val :
            /\ processes' = UpdatePort(processes, p, port)
            /\ registry' = RegistryUpdatePort(registry, name, Some(port))
            /\ disk' \in {disk, SaveProject(disk, registry'[name])}
    /\ UNCHANGED <<routing_table, proxy, lastPort, exitedSince>>
    /\ UNCHANGED <<nextId, waitTask, probe, child, sentExited, sentPort,
                   consumedExited>>
    /\ UNCHANGED ipcVars

\* process_event_handler, PortDetected arm, when save_project fails inside
\* registry.update_port: the port of the record and the route are written
\* before the call, update_port has set the port of the project in memory
\* before it saves, and the error is logged. save_project fails before
\* fs::write has written project.json or, at the chrome directory, after it.
HandlePortDetectedSaveFails ==
    /\ queue # <<>>
    /\ Head(queue).type = "PortDetected"
    /\ Head(queue).process_id \in DOMAIN processes
    /\ processes[Head(queue).process_id].project_name \in DOMAIN registry
    /\ queue' = Tail(queue)
    /\ LET p == Head(queue).process_id
           name == processes[p].project_name
       IN \E port \in Head(queue).val :
            /\ processes' = UpdatePort(processes, p, port)
            /\ routing_table' = Install(routing_table, name, port)
            /\ registry' = RegistryUpdatePort(registry, name, Some(port))
            /\ disk' \in {disk, SaveProject(disk, registry'[name])}
            /\ proxy' = Written(name, Some(port))
            /\ lastPort' = [lastPort EXCEPT ![name] = Some(port)]
            /\ exitedSince' = [exitedSince EXCEPT ![name] = FALSE]
    /\ UNCHANGED <<nextId, waitTask, probe, child, sentExited, sentPort,
                   consumedExited>>
    /\ UNCHANGED ipcVars

\* Mutant of HandleExited: the route stays when another Running record of the
\* project holds a port.
HandleExitedKeepsSurvivorRoute ==
    /\ queue # <<>>
    /\ Head(queue).type = "Exited"
    /\ queue' = Tail(queue)
    /\ LET p == Head(queue).process_id
           exit_code == Head(queue).val
       IN /\ processes' = UpdateStatus(processes, p, ExitStatus(exit_code))
          /\ consumedExited' = [consumedExited EXCEPT ![p] = Bump(@)]
          /\ IF /\ p \in DOMAIN processes
                /\ ~\E q \in DOMAIN processes \ {p} :
                        /\ processes[q].project_name = processes[p].project_name
                        /\ processes[q].status = "Running"
                        /\ processes[q].port # None
             THEN LET name == processes[p].project_name
                  IN /\ routing_table' = Remove(routing_table, name)
                     /\ proxy' = Written(name, None)
                     /\ exitedSince' = [exitedSince EXCEPT ![name] = TRUE]
             ELSE UNCHANGED <<routing_table, proxy, exitedSince>>
    /\ UNCHANGED <<nextId, registry, waitTask, probe, child, sentExited,
                   sentPort, lastPort>>
    /\ UNCHANGED ipcVars
    /\ UNCHANGED disk

\* Mutant of HandleExited: the route is removed only for a record that is
\* still Running when its Exited event arrives.
HandleExitedOfRunning ==
    /\ queue # <<>>
    /\ Head(queue).type = "Exited"
    /\ queue' = Tail(queue)
    /\ LET p == Head(queue).process_id
           exit_code == Head(queue).val
       IN /\ processes' = UpdateStatus(processes, p, ExitStatus(exit_code))
          /\ consumedExited' = [consumedExited EXCEPT ![p] = Bump(@)]
          /\ IF p \in DOMAIN processes /\ processes[p].status = "Running"
             THEN LET name == processes[p].project_name
                  IN /\ routing_table' = Remove(routing_table, name)
                     /\ proxy' = Written(name, None)
                     /\ exitedSince' = [exitedSince EXCEPT ![name] = TRUE]
             ELSE UNCHANGED <<routing_table, proxy, exitedSince>>
    /\ UNCHANGED <<nextId, registry, waitTask, probe, child, sentExited,
                   sentPort, lastPort>>
    /\ UNCHANGED ipcVars
    /\ UNCHANGED disk

\* process_event_handler, Exited arm.
HandleExited ==
    /\ queue # <<>>
    /\ Head(queue).type = "Exited"
    /\ queue' = Tail(queue)
    /\ LET p == Head(queue).process_id
           exit_code == Head(queue).val
       IN /\ processes' = UpdateStatus(processes, p, ExitStatus(exit_code))
          /\ consumedExited' = [consumedExited EXCEPT ![p] = Bump(@)]
          /\ IF p \in DOMAIN processes
             THEN LET name == processes[p].project_name
                  IN /\ routing_table' = Remove(routing_table, name)
                     /\ proxy' = Written(name, None)
                     /\ exitedSince' = [exitedSince EXCEPT ![name] = TRUE]
             ELSE UNCHANGED <<routing_table, proxy, exitedSince>>
    /\ UNCHANGED <<nextId, registry, waitTask, probe, child, sentExited,
                   sentPort, lastPort>>
    /\ UNCHANGED ipcVars
    /\ UNCHANGED disk

\* ------------------------------------------------------------------ the proxy
\* Mutant of ProxyRequest: the check of the extracted name is missing, every
\* name goes to the routing table.
ProxyRequestUnchecked(r, host) ==
    /\ proxy[r].pc = "idle"
    /\ LET name == ProjectNameOf(host)
       IN proxy' = [proxy EXCEPT ![r] = [IdleReq EXCEPT !.pc = "lookup", !.name = name,
                                                       !.valid = {RouteNow(name)}]]
    /\ UNCHANGED <<processes, nextId, registry, routing_table, queue, waitTask,
                   probe, child, histVars>>
    /\ UNCHANGED ipcVars
    /\ UNCHANGED disk

\* handle_request up to the lookup: the project name is taken from the Host
\* header; an empty name or `localhost` is answered 404 at once.
ProxyRequest(r, host) ==
    /\ proxy[r].pc = "idle"
    /\ LET name == ProjectNameOf(host)
       IN IF name = "" \/ name = "localhost"
          THEN proxy' = [proxy EXCEPT ![r] =
                    [IdleReq EXCEPT !.pc = "respond", !.name = name, !.valid = {None},
                                    !.resp = NotFoundResponse("No project specified")]]
          ELSE proxy' = [proxy EXCEPT ![r] =
                    [IdleReq EXCEPT !.pc = "lookup", !.name = name,
                                    !.valid = {RouteNow(name)}]]
    /\ UNCHANGED <<processes, nextId, registry, routing_table, queue, waitTask,
                   probe, child, histVars>>
    /\ UNCHANGED ipcVars
    /\ UNCHANGED disk

\* Mutant of ProxyLookup: a name without a route is answered 502.
ProxyLookupBadGateway(r) ==
    /\ proxy[r].pc = "lookup"
    /\ LET target_port == Lookup(routing_table, proxy[r].name)
       IN proxy' = [proxy EXCEPT
            ![r].seen = target_port,
            ![r].consulted = TRUE,
            ![r].pc = IF target_port = None THEN "respond" ELSE "connect",
            ![r].resp = IF target_port = None
                        THEN ErrorResponse("not found or has no running process")
                        ELSE @]
    /\ UNCHANGED <<processes, nextId, registry, routing_table, queue, waitTask,
                   probe, child, histVars>>
    /\ UNCHANGED ipcVars
    /\ UNCHANGED disk

\* handle_request: routing_table.read().await; table.get(&project_name).copied();
\* None is answered 404, Some(port) goes on to forward_request.
ProxyLookup(r) ==
    /\ proxy[r].pc = "lookup"
    /\ LET target_port == Lookup(routing_table, proxy[r].name)
       IN proxy' = [proxy EXCEPT
            ![r].seen = target_port,
            ![r].consulted = TRUE,
            ![r].pc = IF target_port = None THEN "respond" ELSE "connect",
            ![r].resp = IF target_port = None
                        THEN NotFoundResponse("not found or has no running process")
                        ELSE @]
    /\ UNCHANGED <<processes, nextId, registry, routing_table, queue, waitTask,
                   probe, child, histVars>>
    /\ UNCHANGED ipcVars
    /\ UNCHANGED disk

\* TcpStream::connect("127.0.0.1:<port>"): it is refused when no live child
\* has the port; a live child may have closed its socket.
ConnectOutcome(port) ==
    IF \E p \in ProcIds : Alive(p) /\ PortOf(p) = port
    THEN {"connected", "refused"} ELSE {"refused"}

\* Mutant of ProxyForward: the connection goes to the port of some route of
\* the table, not to the one looked up.
ProxyForwardAnyRoute(r) ==
    /\ proxy[r].pc = "connect"
    /\ \E n \in DOMAIN routing_table, outcome \in {"connected", "refused"} :
            proxy' = [proxy EXCEPT
                ![r].pc = "respond",
                ![r].target = Some(routing_table[n]),
                ![r].conn = outcome,
                ![r].resp = IF outcome = "connected" THEN BackendResponse
                            ELSE ErrorResponse("Failed to connect to backend")]
    /\ UNCHANGED <<processes, nextId, registry, routing_table, queue, waitTask,
                   probe, child, histVars>>
    /\ UNCHANGED ipcVars
    /\ UNCHANGED disk

\* forward_request(req, target_port): the backend's response when the
\* connection is made, 502 when it fails.
ProxyForward(r) ==
    /\ proxy[r].pc = "connect"
    /\ \E target_port \in proxy[r].seen :
        \E outcome \in ConnectOutcome(target_port) :
            proxy' = [proxy EXCEPT
                ![r].pc = "respond",
                ![r].target = Some(target_port),
                ![r].conn = outcome,
                ![r].resp = IF outcome = "connected" THEN BackendResponse
                            ELSE ErrorResponse("Failed to connect to backend")]
    /\ UNCHANGED <<processes, nextId, registry, routing_table, queue, waitTask,
                   probe, child, histVars>>
    /\ UNCHANGED ipcVars
    /\ UNCHANGED disk

\* Mutant of ProxyRespond: the proxy task drops the route of the project it
\* has answered for.
ProxyRespondEvicts(r) ==
    /\ proxy[r].pc = "respond"
    /\ proxy' = [proxy EXCEPT ![r] = IdleReq]
    /\ routing_table' = Remove(routing_table, proxy[r].name)
    /\ UNCHANGED <<processes, nextId, registry, queue, waitTask,
                   probe, child, histVars>>
    /\ UNCHANGED ipcVars
    /\ UNCHANGED disk

\* The response is written and the task ends.
ProxyRespond(r) ==
    /\ proxy[r].pc = "respond"
    /\ proxy' = [proxy EXCEPT ![r] = IdleReq]
    /\ UNCHANGED <<processes, nextId, registry, routing_table, queue, waitTask,
                   probe, child, histVars>>
    /\ UNCHANGED ipcVars
    /\ UNCHANGED disk

\* ------------------------------------------- the handlers, lock by lock
\* What no step of a handler that takes the state lock writes but the one
\* that answers.
quietVars == <<createWrites, validation, restarts, detection, finding, request>>

\* A reader task of a child's stdout or stderr sends a line as an Output
\* event; it waits while the channel is full.
ReaderSend(p) ==
    /\ child[p] # "none"
    /\ output[p] < MaxLines
    /\ ~Full
    /\ queue' = Append(queue, Output(p))
    /\ output' = [output EXCEPT ![p] = @ + 1]
    /\ UNCHANGED <<processes, nextId, registry, routing_table, child, waitTask,
                   probe, proxy, histVars, response, connection, disk, mutex,
                   router, spawning, quietVars>>

\* RunCommand up to the start of the tasks: the handler takes the state lock,
\* finds the project, and spawn starts the child, its readers, its wait task
\* and its probe task.
SpawnBegin(name, limit) ==
    /\ mutex = "free"
    /\ nextId <= limit
    /\ name \in DOMAIN registry
    /\ mutex' = "ipc"
    /\ StartTasks(nextId)
    /\ spawning' = Some([project_name |-> name, id |-> nextId])
    /\ UNCHANGED <<processes, registry, routing_table, queue, proxy, histVars,
                   response, connection, disk, router, output, quietVars>>

\* Mutant of SpawnEnd: the handler answers without dropping the guard.
SpawnEndHolds ==
    /\ \E s \in spawning :
        /\ processes' = [p \in DOMAIN processes \cup {s.id} |->
                            IF p = s.id
                            THEN [project_name |-> s.project_name, pid |-> s.id,
                                  started_at |-> s.id, port |-> None,
                                  status |-> "Running"]
                            ELSE processes[p]]
        /\ response' = ProcessStarted(s.id)
    /\ spawning' = None
    /\ connection' = Served("request")
    /\ UNCHANGED <<nextId, registry, routing_table, queue, child, waitTask,
                   probe, proxy, histVars, disk, router, output, quietVars,
                   mutex>>

\* RunCommand from the placeholder child on: spawn inserts the record and
\* returns, the handler answers and the lock is released.
SpawnEnd ==
    /\ \E s \in spawning :
        /\ processes' = [p \in DOMAIN processes \cup {s.id} |->
                            IF p = s.id
                            THEN [project_name |-> s.project_name, pid |-> s.id,
                                  started_at |-> s.id, port |-> None,
                                  status |-> "Running"]
                            ELSE processes[p]]
        /\ response' = ProcessStarted(s.id)
    /\ spawning' = None
    /\ mutex' = "free"
    /\ connection' = Served("request")
    /\ UNCHANGED <<nextId, registry, routing_table, queue, child, waitTask,
                   probe, proxy, histVars, disk, router, output, quietVars>>

\* The same when Command::new("true").spawn()? fails: no record is inserted.
SpawnEndFails ==
    /\ \E s \in spawning : response' = IpcError("os error", s.project_name, 0)
    /\ spawning' = None
    /\ mutex' = "free"
    /\ connection' = Served("request")
    /\ UNCHANGED <<processes, nextId, registry, routing_table, queue, child,
                   waitTask, probe, proxy, histVars, disk, router, output,
                   quietVars>>

\* event_rx.recv() returns a PortDetected or an Exited event; the Event
\* Router goes on to state.lock().
RouterRecv ==
    /\ router.pc = "recv"
    /\ queue # <<>>
    /\ Head(queue).type \in {"PortDetected", "Exited"}
    /\ queue' = Tail(queue)
    /\ router' = [pc |-> "lock", event |-> Head(queue)]
    /\ UNCHANGED <<processes, nextId, registry, routing_table, child, waitTask,
                   probe, proxy, histVars, response, connection, disk, mutex,
                   spawning, output, quietVars>>

\* event_rx.recv() returns an Output event: the arm is empty and takes no
\* lock.
RouterOutput ==
    /\ router.pc = "recv"
    /\ queue # <<>>
    /\ Head(queue).type = "Output"
    /\ queue' = Tail(queue)
    /\ UNCHANGED <<processes, nextId, registry, routing_table, child, waitTask,
                   probe, proxy, histVars, response, connection, disk, mutex,
                   router, spawning, output, quietVars>>

\* state.lock().await of the Event Router returns.
RouterLock ==
    /\ router.pc = "lock"
    /\ mutex = "free"
    /\ mutex' = "router"
    /\ router' = [router EXCEPT !.pc = "handle"]
    /\ UNCHANGED <<processes, nextId, registry, routing_table, queue, child,
                   waitTask, probe, proxy, histVars, response, connection, disk,
                   spawning, output, quietVars>>

\* The Exited arm under the lock; the lock is released at its end.
RouterExited ==
    /\ router.pc = "handle"
    /\ router.event.type = "Exited"
    /\ LET p == router.event.process_id
           exit_code == router.event.val
       IN /\ processes' = UpdateStatus(processes, p, ExitStatus(exit_code))
          /\ consumedExited' = [consumedExited EXCEPT ![p] = Bump(@)]
          /\ IF p \in DOMAIN processes
             THEN LET name == processes[p].project_name
                  IN /\ routing_table' = Remove(routing_table, name)
                     /\ proxy' = Written(name, None)
                     /\ exitedSince' = [exitedSince EXCEPT ![name] = TRUE]
             ELSE UNCHANGED <<routing_table, proxy, exitedSince>>
    /\ router' = RouterIdle
    /\ mutex' = "free"
    /\ UNCHANGED <<nextId, registry, queue, child, waitTask, probe, sentExited,
                   sentPort, lastPort, response, connection, disk, spawning,
                   output, quietVars>>

\* The PortDetected arm under the lock, up to the write of project.json:
\* the port of the record, the route, the port of the project in memory.
\* For an event without record the arm ends here and the lock is released.
RouterPortDetected ==
    /\ router.pc = "handle"
    /\ router.event.type = "PortDetected"
    /\ LET p == router.event.process_id
       IN \E port \in router.event.val :
            /\ processes' = UpdatePort(processes, p, port)
            /\ IF p \in DOMAIN processes
               THEN LET name == processes[p].project_name
                    IN /\ routing_table' = Install(routing_table, name, port)
                       /\ registry' = RegistryUpdatePort(registry, name, Some(port))
                       /\ proxy' = Written(name, Some(port))
                       /\ lastPort' = [lastPort EXCEPT ![name] = Some(port)]
                       /\ exitedSince' = [exitedSince EXCEPT ![name] = FALSE]
                       /\ router' = [router EXCEPT !.pc = "writing"]
                       /\ mutex' = mutex
               ELSE /\ router' = RouterIdle
                    /\ mutex' = "free"
                    /\ UNCHANGED <<routing_table, registry, proxy, lastPort,
                                   exitedSince>>
    /\ UNCHANGED <<nextId, queue, child, waitTask, probe, sentExited, sentPort,
                   consumedExited, response, connection, disk, spawning,
                   output, quietVars>>

\* save_project inside registry.update_port returns: project.json is
\* written, the arm ends and the guard of the state lock is dropped.
RouterWriteEnd ==
    /\ router.pc = "writing"
    /\ LET name == processes[router.event.process_id].project_name
       IN disk' = IF name \in DOMAIN registry
                  THEN SaveProject(disk, registry[name]) ELSE disk
    /\ router' = RouterIdle
    /\ mutex' = "free"
    /\ UNCHANGED <<processes, nextId, registry, routing_table, queue, child,
                   waitTask, probe, proxy, histVars, response, connection,
                   spawning, output, quietVars>>

\* An IPC request whose handler holds the state lock from its first to its
\* last statement.
Locked(Handler) == mutex = "free" /\ Handler

\* ------------------------------------------------------- the specifications
\* The supervisor, the Event Router and the IPC requests, for commands run in
\* the projects `names`, at most `limit` of them.
Supervisor(names, limit) ==
    \/ \E name \in names : CreateProject(name)
    \/ \E name \in names : RunCommand(name, limit)
    \/ \E name \in names : RunCommandPlaceholderFails(name, limit)
    \/ \E p \in ProcIds : Stop(p)
    \/ \E p \in ProcIds : ChildExit(p)
    \/ \E p \in ProcIds : ChildTerminate(p)
    \/ \E p \in ProcIds, w \in ExitResults : WaitExited(p, w)
    \/ \E p \in ProcIds : WaitFails(p)
    \/ \E p \in ProcIds : ProbePoll(p)
    \/ \E p \in ProcIds : ProbeSend(p)
    \/ HandlePortDetected
    \/ HandleExited

\* The proxy's request tasks: they read the routing table and write nothing
\* the supervisor reads.
Proxy ==
    \/ \E r \in ReqIds, host \in Hosts : ProxyRequest(r, host)
    \/ \E r \in ReqIds : ProxyLookup(r)
    \/ \E r \in ReqIds : ProxyForward(r)
    \/ \E r \in ReqIds : ProxyRespond(r)

\* The supervisor of one project.
Next == Supervisor({"alpha"}, MaxProcs)
Spec == Init /\ [][Next]_vars

\* The same with one more command, for the claims about several processes of
\* one project.
NextWide == Supervisor({"alpha"}, MaxProcs + 1)
SpecWide == Init /\ [][NextWide]_vars

\* The same under the scheduling the runtime gives: the wait task of an exited
\* child and the Event Router (whose lock is fair) run, and a child that got
\* SIGTERM terminates.
Fairness ==
    /\ \A p \in ProcIds : WF_vars(ChildTerminate(p))
    /\ \A p \in ProcIds : WF_vars((\E w \in ExitResults : WaitExited(p, w)) \/ WaitFails(p))
    /\ WF_vars(HandlePortDetected)
    /\ WF_vars(HandleExited)
FairSpec == Init /\ [][Next]_vars /\ Fairness

\* The same with the probe tasks scheduled: their sleeps end, and their send
\* goes through once the channel has room.
ProbeFairness ==
    /\ Fairness
    /\ \A p \in ProcIds : WF_vars(ProbePoll(p))
    /\ \A p \in ProcIds : WF_vars(ProbeSend(p))
FairProbeSpec == Init /\ [][Next]_vars /\ ProbeFairness

\* The supervisor of two projects together with the proxy; create_project is
\* also asked for the name the proxy extracts from `Host: localhost:8080`.
NextProxy == Supervisor(RequestedNames, MaxProcs) \/ Proxy
SpecProxy == Init /\ [][NextProxy]_vars

\* The IPC requests that are answered with an error.
Failures(names, limit) ==
    \/ \E name \in RequestedNames : CreateProjectInvalid(name)
    \/ \E name \in names : CreateProjectExists(name)
    \/ \E name \in Projects : RunCommandNoProject(name)
    \/ \E name \in names : RunCommandSpawnFails(name, limit)
    \/ \E p \in ProcIds : StopNotFound(p)
    \/ \E p \in ProcIds : StopKillFails(p)

\* The supervisor of one project with the requests that fail and the Status
\* request.
NextIpc ==
    \/ Supervisor({"alpha"}, MaxProcs)
    \/ Failures({"alpha"}, MaxProcs)
    \/ Status
SpecIpc == Init /\ [][NextIpc]_vars

\* The requests that read the state or do nothing.
Requests ==
    \/ Shutdown
    \/ ListProjects
    \/ \E name \in Projects : GetProject(name)
    \/ \E name \in {None} \cup {Some(n) : n \in Projects} : ListProcesses(name)

\* The supervisor of one project with every IPC request and the proxy, for
\* one command less than MaxProcs.
NextRequests ==
    \/ Supervisor({"alpha"}, MaxProcs - 1)
    \/ Failures({"alpha"}, MaxProcs - 1)
    \/ Status
    \/ Requests
    \/ Proxy
SpecRequests == Init /\ [][NextRequests]_vars

\* The supervisor of the projects with StopProcess requests that carry a
\* project_name, for one command less than MaxProcs.
NextStop ==
    \/ Supervisor(Projects, MaxProcs - 1)
    \/ \E name \in Projects, p \in ProcIds : StopProcess(name, p)
SpecStop == Init /\ [][NextStop]_vars

\* The child tasks, with the readers of stdout and stderr.
Tasks ==
    \/ \E p \in ProcIds : ChildExit(p)
    \/ \E p \in ProcIds : ChildTerminate(p)
    \/ \E p \in ProcIds, w \in ExitResults : WaitExited(p, w)
    \/ \E p \in ProcIds : WaitFails(p)
    \/ \E p \in ProcIds : ProbePoll(p)
    \/ \E p \in ProcIds : ProbeSend(p)
    \/ \E p \in ProcIds : ReaderSend(p)

\* The Event Router, step by step.
Router ==
    \/ RouterRecv
    \/ RouterOutput
    \/ RouterLock
    \/ RouterExited
    \/ RouterPortDetected
    \/ RouterWriteEnd

\* The IPC handlers under the state lock, RunCommand in two steps.
Handlers(names, limit) ==
    \/ \E name \in names : Locked(CreateProject(name))
    \/ \E name \in names : SpawnBegin(name, limit)
    \/ SpawnEnd
    \/ SpawnEndFails
    \/ \E p \in ProcIds : Locked(Stop(p))
    \/ Locked(Status)

\* The daemon with the state lock, for one command less than MaxProcs.
NextLock ==
    \/ Handlers({"alpha"}, MaxProcs - 1)
    \/ Tasks
    \/ Router
    \/ Proxy
SpecLock == Init /\ [][NextLock]_vars

\* The same with every task scheduled: a task that can take a step takes
\* it; the state lock is a tokio Mutex, which serves its waiters in the
\* order of their arrival, so the Event Router gets the lock if it is free
\* again and again.
LockFairness ==
    /\ \A p \in ProcIds : WF_vars(ChildTerminate(p))
    /\ \A p \in ProcIds : WF_vars((\E w \in ExitResults : WaitExited(p, w)) \/ WaitFails(p))
    /\ \A p \in ProcIds : WF_vars(ProbePoll(p))
    /\ \A p \in ProcIds : WF_vars(ProbeSend(p))
    /\ \A p \in ProcIds : WF_vars(ReaderSend(p))
    /\ WF_vars(RouterRecv \/ RouterOutput)
    /\ SF_vars(RouterLock)
    /\ WF_vars(RouterExited \/ RouterPortDetected \/ RouterWriteEnd)
    /\ WF_vars(SpawnEnd \/ SpawnEndFails)
FairLockSpec == Init /\ [][NextLock]_vars /\ LockFairness

\* The same with the connections whose line reaches no handler.
NextConnection ==
    \/ NextIpc
    \/ \E line \in UnhandledLines : UnhandledLine(line)
SpecConnection == Init /\ [][NextConnection]_vars

\* The values Utc::now() takes: the wall clock may stand still or step back
\* from one spawn to the next.
Times == 1..MaxProcs

\* The supervisor of one project under such a clock, with calls of
\* find_by_project.
NextFind ==
    \/ Supervisor({"alpha"}, MaxProcs)
    \/ \E now \in Times : RunCommandAt("alpha", MaxProcs, now)
    \/ \E name \in Projects : Find(name)
SpecFind == Init /\ [][NextFind]_vars

\* The supervisor of one project on a disk whose writes can fail while a
\* port is persisted.
NextDisk ==
    \/ Supervisor({"alpha"}, MaxProcs)
    \/ HandlePortDetectedSaveFails
SpecDisk == Init /\ [][NextDisk]_vars

\* The supervisor of the projects with restarts of the daemon.
NextRestart ==
    \/ Supervisor(Projects, MaxProcs)
    \/ Restart
SpecRestart == Init /\ [][NextRestart]_vars

\* detect_port applied to every output of LsofOutputs.
NextDetect == Detect
SpecDetect == InitDetect /\ [][NextDetect]_vars

\* validate_project_name applied to every argument of NameInputs.
NextValidate == Validate
SpecValidate == InitValidate /\ [][NextValidate]_vars

\* ------------------------------------------------------------------ claims
RecordsOf(name) == {p \in DOMAIN processes : processes[p].project_name = name}
HasRoute(name) == name \in DOMAIN routing_table

\* C1: every entry (project, port) of the routing table has a record of that
\* project with status Running and that port.
RouteHasRunningProcess ==
    \A name \in DOMAIN routing_table :
        \E p \in RecordsOf(name) :
            /\ processes[p].status = "Running"
            /\ processes[p].port = Some(routing_table[name])

\* C2: a record whose status is Stopped or Failed keeps that status in every
\* step.
TerminalStatusIsKept ==
    [][\A p \in DOMAIN processes :
          processes[p].status \in {"Stopped", "Failed"}
              => processes'[p].status = processes[p].status]_vars

\* C3 as stated: a record with a port has a route for its project unless the
\* Exited event of that record has been processed.
PortHasRouteUnlessOwnExit ==
    \A p \in DOMAIN processes :
        (processes[p].port # None /\ consumedExited[p] = 0)
            => HasRoute(processes[p].project_name)

\* C3 as amended: a record with a port has a route for its project unless an
\* Exited event of some record of that project has been processed after the
\* last PortDetected of the project.
PortHasRouteUnlessProjectExit ==
    \A p \in DOMAIN processes :
        processes[p].port # None
            => (HasRoute(processes[p].project_name)
                \/ exitedSince[processes[p].project_name])

\* C3 witness: a record with a port that has not exited, its project without
\* a route after the exit of another record of the project.
SurvivorWithoutRoute ==
    \E p \in DOMAIN processes :
        /\ processes[p].port # None
        /\ consumedExited[p] = 0
        /\ child[p] = "running"
        /\ ~HasRoute(processes[p].project_name)
        /\ \E q \in RecordsOf(processes[p].project_name) : consumedExited[q] = 1

\* C4: a PortDetected event in the queue, of a process that has a record,
\* belongs to a process whose Exited event was neither consumed nor queued
\* before it.
PortDetectedPrecedesExited ==
    \A i \in 1..Len(queue) :
        (queue[i].type = "PortDetected" /\ queue[i].process_id \in DOMAIN processes)
            => /\ consumedExited[queue[i].process_id] = 0
               /\ \A j \in 1..(i - 1) :
                    ~(queue[j].type = "Exited"
                      /\ queue[j].process_id = queue[i].process_id)

\* C5: when the only process of a project has exited and its Exited event
\* has been processed, the project has no route.
NoRouteAfterOnlyProcessExited ==
    \A name \in Projects :
        (\E p \in DOMAIN processes :
            RecordsOf(name) = {p} /\ consumedExited[p] >= 1)
            => ~HasRoute(name)

ExitedExactlyOnce ==
    /\ [](\A p \in ProcIds : sentExited[p] <= 1 /\ consumedExited[p] <= 1)
    /\ \A p \in ProcIds :
        (p \in DOMAIN processes /\ child[p] \in {"zombie", "reaped"})
            ~> (consumedExited[p] = 1)

\* C7 witness: the one Exited event of a record has been consumed.
ExitedConsumedOnce ==
    \E p \in DOMAIN processes : sentExited[p] = 1 /\ consumedExited[p] = 1

\* C8: at most one PortDetected event is sent per process_id.
AtMostOnePortDetected ==
    \A p \in ProcIds : sentPort[p] <= 1

\* C8 witness: a probe task has sent its PortDetected and ended while the
\* child still lives.
ProbeEndedAfterDetection ==
    \E p \in ProcIds : sentPort[p] = 1 /\ probe[p].pc = "done" /\ Alive(p)

\* C9: the port a proxy lookup observes is the one the last install or remove
\* of the name completed before the lookup began left, or one written while
\* the lookup was in flight: never an older one.
LookupSeesLastWrite ==
    \A r \in ReqIds :
        proxy[r].pc \in {"connect", "respond"} => proxy[r].seen \in proxy[r].valid

\* C9 witness: a lookup that answers with the port of an install, after the
\* route of its name was written while it was in flight.
LookupRacedInstall ==
    \E r \in ReqIds :
        /\ proxy[r].pc \in {"connect", "respond"}
        /\ proxy[r].seen # None
        /\ Cardinality(proxy[r].valid) >= 2

SeveralRunningWithPort(name) ==
    Cardinality({p \in RecordsOf(name) :
        processes[p].status = "Running" /\ processes[p].port # None}) >= 2

\* C10 as stated: when several Running records of a project have a port, the
\* route of the project is the port of the PortDetected processed last.
LastPortDetectedIsRoute ==
    \A name \in Projects :
        SeveralRunningWithPort(name) => RouteNow(name) = lastPort[name]

\* C10 as amended: ... the route of the project is the port of the
\* PortDetected processed last, unless an Exited event of a record of the
\* project was processed after it: then the project has no route.
LastPortDetectedIsRouteUnlessExit ==
    \A name \in Projects :
        SeveralRunningWithPort(name)
            => IF exitedSince[name] THEN ~HasRoute(name)
               ELSE RouteNow(name) = lastPort[name]

\* C10 witness: two Running records of one project with different ports, the
\* route being the port detected last.
LaterPortOverwroteRoute ==
    \E name \in Projects :
        /\ SeveralRunningWithPort(name)
        /\ HasRoute(name)
        /\ RouteNow(name) = lastPort[name]
        /\ \E p \in RecordsOf(name) :
            /\ processes[p].status = "Running"
            /\ processes[p].port # None
            /\ processes[p].port # RouteNow(name)

\* C11: the port of a record changes only from None to Some(port): once set
\* it is the same in every later state.
PortSetAtMostOnce ==
    [][\A p \in DOMAIN processes :
          processes'[p].port # processes[p].port
              => processes[p].port = None /\ processes'[p].port # None]_vars

\* C11 witness: two records have their ports, the PortDetected of the second
\* was processed after the one of the first.
TwoRecordsKeepTheirPorts ==
    \E p, q \in DOMAIN processes :
        /\ p # q
        /\ processes[p].port = Some(PortOf(p))
        /\ processes[q].port = Some(PortOf(q))

\* C12: the step that processes Exited{process_id, exit_code} leaves the
\* record Stopped exactly when exit_code is Some(0) and Failed otherwise; the
\* wait task gives Some(0) only for an exit with code 0, so a nonzero code, a
\* signal exit and a wait error all end in Failed.
ExitedSetsStatusByCode ==
    /\ [](\A w \in ExitResults \cup {"error"} :
            ExitStatus(ExitCodeOf(w)) = IF w = "exit0" THEN "Stopped" ELSE "Failed")
    /\ [][\A p \in DOMAIN processes :
            consumedExited'[p] # consumedExited[p]
                => /\ processes'[p].status = "Stopped" <=> Head(queue).val = Some(0)
                   /\ processes'[p].status = "Failed" <=> Head(queue).val # Some(0)]_vars

\* C12 witness: the Exited events of two records were processed, one left
\* its record Stopped and the other Failed.
BothExitStatusesSet ==
    \E p, q \in DOMAIN processes :
        /\ consumedExited[p] = 1 /\ processes[p].status = "Stopped"
        /\ consumedExited[q] = 1 /\ processes[q].status = "Failed"
        /\ waitTask[p] = "done" /\ waitTask[q] = "done"

\* C13: a RunCommand step answered "Failed to spawn process" is an Error and
\* leaves the records, the registry, the routing table, the queue, the
\* children and the tasks as they were.
SpawnFailureChangesNothing ==
    [][(response' # response /\ response'.message = "Failed to spawn process")
          => /\ response'.type = "Error"
             /\ UNCHANGED <<processes, registry, routing_table, queue, child,
                            waitTask, probe>>]_vars

\* C13 witness: a spawn failed while the project had a running process and a
\* route.
SpawnFailedBesideRoute ==
    /\ response.message = "Failed to spawn process"
    /\ HasRoute(response.name)
    /\ \E p \in RecordsOf(response.name) : processes[p].status = "Running"

\* C14: a StopProcess step answered with an error of stop ("Process not
\* found" or "Failed to send SIGTERM") is an Error and leaves every record and
\* the routing table as they were.
StopErrorChangesNothing ==
    [][(response' # response
          /\ response'.message \in {"Process not found", "Failed to send SIGTERM"})
          => /\ response'.type = "Error"
             /\ processes' = processes
             /\ routing_table' = routing_table]_vars

\* C14 witness: stop failed to signal the reaped child of a Failed record,
\* which is still Failed.
StopFailedOnReapedChild ==
    \E p \in DOMAIN processes :
        /\ response = IpcError("Failed to send SIGTERM", "", p)
        /\ child[p] = "reaped"
        /\ processes[p].status = "Failed"

MissingRouteIsNotFound ==
    \A r \in ReqIds :
        (proxy[r].consulted /\ proxy[r].seen = None)
            => /\ proxy[r].pc = "respond"
               /\ proxy[r].resp.status = 404
               /\ proxy[r].target = None
               /\ proxy[r].conn = "none"

\* C16 witness: 404 for a project whose running process has no port, its
\* probe having ended without one.
RunningButUnroutable ==
    \E r \in ReqIds :
        /\ proxy[r].consulted /\ proxy[r].seen = None
        /\ proxy[r].resp.status = 404
        /\ \E p \in RecordsOf(proxy[r].name) :
            /\ processes[p].status = "Running"
            /\ child[p] = "running"
            /\ probe[p].pc = "done"
            /\ processes[p].port = None
            /\ sentPort[p] = 0

\* C17: a request whose extracted name is empty (also: no Host header) or
\* `localhost` is answered 404 with the convention message and without a
\* read of the routing table; a request with `Host: localhost:8080` is
\* answered 404.
NoProjectIsNotFound ==
    \A r \in ReqIds :
        proxy[r].pc = "respond"
            => /\ proxy[r].name \in {"", "localhost"}
                    => /\ proxy[r].resp = NotFoundResponse("No project specified")
                       /\ ~proxy[r].consulted
                       /\ proxy[r].target = None
               /\ proxy[r].name = "localhost:8080" => proxy[r].resp.status = 404

\* C17 witness: `Host: localhost:8080` answered 404 while both projects are
\* routed.
LocalhostPortNotFound ==
    \E r \in ReqIds :
        /\ proxy[r].pc = "respond"
        /\ proxy[r].name = "localhost:8080"
        /\ proxy[r].resp.status = 404
        /\ HasRoute("alpha") /\ HasRoute("beta")

\* C18: a request whose backend connection was refused is answered 502, and
\* the step in which it is refused leaves the routing table as it was.
RefusedIsBadGateway ==
    /\ [](\A r \in ReqIds : proxy[r].conn = "refused" => proxy[r].resp.status = 502)
    /\ [][\A r \in ReqIds :
            (proxy'[r].conn = "refused" /\ proxy[r].conn # "refused")
                => routing_table' = routing_table]_vars

\* C18 witness: 502 for a project whose route is still in the table.
RefusedWithRouteKept ==
    \E r \in ReqIds :
        /\ proxy[r].conn = "refused"
        /\ proxy[r].resp.status = 502
        /\ HasRoute(proxy[r].name)
        /\ proxy[r].target = Some(routing_table[proxy[r].name])

MatchesPattern(name) ==
    /\ Len(name) \in 1..64
    /\ name[1] \in AsciiLetters \cup AsciiDigits
    /\ \A i \in 1..Len(name) : name[i] \in AsciiLetters \cup AsciiDigits \cup {"-", "_"}

\* C20: validate_project_name accepts a name exactly when it matches the
\* pattern ^[A-Za-z0-9][A-Za-z0-9_-]{0,63}$.
ValidateAcceptsPattern ==
    validation.result # "pending"
        => (validation.result = "ok" <=> MatchesPattern(validation.name))

RunningRecords == {p \in DOMAIN processes : processes[p].status = "Running"}

\* C21: running_count() is the number of records with status Running, and a
\* Status response carries that number as its process_count.
RunningCountCountsRunning ==
    /\ [](RunningCount(processes) = Cardinality(RunningRecords))
    /\ [][(response' # response /\ response'.type = "Status")
            => response'.process_count = Cardinality(RunningRecords)]_vars

\* C21 witness: Status answered 1 with two records, one of them not Running
\* any more.
StatusCountsOneOfTwo ==
    /\ response.type = "Status"
    /\ response.process_count = 1
    /\ Cardinality(DOMAIN processes) = 2
    /\ Cardinality(RunningRecords) = 1

\* C28: every record belongs to a project of the registry, and a RunCommand
\* step answered "Project not found" is for a name the registry does not hold
\* and leaves the records, the children, the tasks and the queue as they
\* were.
UnknownProjectSpawnsNothing ==
    /\ [](\A p \in DOMAIN processes : processes[p].project_name \in DOMAIN registry)
    /\ [][\A name \in Projects :
            (response' # response /\ response' = IpcError("not found", name, 0))
                => /\ name \notin DOMAIN registry
                   /\ UNCHANGED <<processes, nextId, child, waitTask, probe, queue,
                                  registry, routing_table>>]_vars

\* C28 witness: run_command of the unknown beta was refused while a process
\* of alpha runs and an event is queued.
UnknownProjectRefused ==
    /\ response = IpcError("not found", "beta", 0)
    /\ RunningRecords # {}
    /\ queue # <<>>

\* C29: a StopProcess step that reports success, its SIGTERM delivered, is
\* never taken for a process_id whose child the wait task has reaped.
NoSignalAfterReap ==
    [][\A p \in ProcIds :
          (response' # response /\ response' = Success(p))
              => child[p] # "reaped"]_vars

\* C22: a call of find_by_project(name) returns none when the project has no
\* Running record, else a Running record of the project with the greatest
\* started_at, and the records decide which: no other result is possible.
FindReturnsLatestRunning ==
    [][finding' # finding
          => LET name == finding'.name
                 running == {p \in RunningRecords : processes[p].project_name = name}
             IN IF running = {} THEN finding'.result = None
                ELSE /\ \E p \in running :
                        /\ finding'.result = Some(p)
                        /\ \A q \in running :
                              processes[q].started_at <= processes[p].started_at
                     /\ Cardinality(FindByProject(processes, name)) = 1]_vars

\* The address of a row in the state LISTEN: its NAME column, the part before
\* "(LISTEN)".
ListenRows(stdout) ==
    {i \in DOMAIN stdout : stdout[i][Len(stdout[i])] = Listen}
AddressSuffix(row) == AfterLastColon(row[Len(row) - 1])
SuffixIsPort(str) == ParseU16(str) # None /\ ParseU16(str) \subseteq 1..65535

\* C23: detect_port never reports a port outside 1..65535, and reports no
\* port when the address suffix of every LISTEN row is 0, is greater than
\* 65535 or is not a number.
DetectRejectsOutOfRange ==
    detection.done
        => /\ detection.result \subseteq 1..65535
           /\ (\A i \in ListenRows(detection.stdout) :
                    ~SuffixIsPort(AddressSuffix(detection.stdout[i])))
                 => detection.result = None

\* The Event Router takes a PortDetected event of a known record and
\* save_project does not leave the new port in project.json.
PortSaveFailed ==
    /\ queue # <<>>
    /\ Head(queue).type = "PortDetected"
    /\ Head(queue).process_id \in DOMAIN processes
    /\ queue' = Tail(queue)
    /\ LET name == processes[Head(queue).process_id].project_name
       IN \/ name \notin DOMAIN disk'
          \/ \E port \in Head(queue).val : FromJson(disk'[name]).port # Some(port)

\* C24: when registry.update_port fails while a PortDetected event is
\* handled, the port of the record and the route of its project are installed
\* all the same, and the Event Router still takes the next event of the
\* channel.
PortSaveErrorNotPropagated ==
    /\ [][PortSaveFailed
            => LET p == Head(queue).process_id
               IN \E port \in Head(queue).val :
                    /\ processes'[p].port = Some(port)
                    /\ processes[p].project_name \in DOMAIN routing_table'
                    /\ routing_table'[processes[p].project_name] = port]_vars
    /\ [](queue # <<>> => ENABLED (HandlePortDetected \/ HandlePortDetectedSaveFails
                                        \/ HandleExited))

PortRoutedNotSaved ==
    /\ "alpha" \in DOMAIN routing_table
    /\ "alpha" \in DOMAIN disk
    /\ FromJson(disk["alpha"]).port # Some(routing_table["alpha"])
    /\ registry["alpha"].port = Some(routing_table["alpha"])
    /\ \E p \in DOMAIN processes : processes[p].port = Some(routing_table["alpha"])
    /\ queue # <<>>

RoutingNotPersisted ==
    /\ [][restarts' # restarts => routing_table' = <<>>]_vars
    /\ [][\A name \in Projects :
            (/\ name \in DOMAIN routing_table'
             /\ name \in DOMAIN routing_table
                    => routing_table'[name] # routing_table[name])
                => /\ restarts' = restarts
                   /\ queue # <<>>
                   /\ Head(queue).type = "PortDetected"
                   /\ Head(queue).process_id \in DOMAIN processes
                   /\ processes[Head(queue).process_id].project_name = name
                   /\ queue' = Tail(queue)]_vars

RestartedWithPersistedPort ==
    /\ restarts = 1
    /\ "alpha" \in DOMAIN registry
    /\ registry["alpha"].port # None
    /\ routing_table = <<>>
    /\ \E p \in DOMAIN processes : processes[p].status = "Running"

\* C27: a connection that sent a line got exactly one response, and a line
\* that does not decode as a request is answered with an error and changes
\* no daemon state.
OneResponsePerLine ==
    /\ [](connection.line \in {"request", "garbage", "not_utf8"}
            => connection.responses = 1)
    /\ [][(connection' # connection /\ connection'.line \in {"garbage", "not_utf8"})
            => /\ response'.type = "Error"
               /\ UNCHANGED <<processes, nextId, registry, routing_table, queue,
                              child, waitTask, probe, disk>>]_vars

\* C30: the Event Router, taking Exited of a record, leaves the project of
\* the record without a route whatever the other records of the project are,
\* and, taking PortDetected of a record, leaves the project routed to the
\* port of the event.
ExitedRemovesThenPortReinstalls ==
    [][(/\ queue # <<>>
        /\ queue' = Tail(queue)
        /\ Head(queue).process_id \in DOMAIN processes)
          => LET name == processes[Head(queue).process_id].project_name
             IN /\ Head(queue).type = "Exited"
                    => name \notin DOMAIN routing_table'
                /\ Head(queue).type = "PortDetected"
                    => /\ name \in DOMAIN routing_table'
                       /\ Head(queue).val = Some(routing_table'[name])]_vars

\* The Exited of one record has taken the route away while another record
\* of the project is Running and holds a port, and the PortDetected of a
\* third, Running, is the next event.
SurvivorAboutToReinstall ==
    /\ "alpha" \notin DOMAIN routing_table
    /\ exitedSince["alpha"]
    /\ \E p \in RunningRecords : processes[p].port # None
    /\ queue # <<>>
    /\ Head(queue).type = "PortDetected"
    /\ Head(queue).process_id \in RunningRecords
    /\ processes[Head(queue).process_id].port = None

\* C31: a stop that answers success leaves its record Stopped in the same
\* step, with the child it signalled still alive, and leaves the port of the
\* record and the routing table as they were; a project loses its route only
\* in a step of the Event Router that takes an Exited event.
StopMarksAndKeepsRoute ==
    /\ [][\A p \in ProcIds :
            (/\ response' = Success(p)
             /\ response' # response \/ (processes' # processes /\ queue' = queue))
                => /\ p \in DOMAIN processes
                   /\ processes'[p].status = "Stopped"
                   /\ processes'[p].port = processes[p].port
                   /\ Alive(p) => child'[p] = "signalled"
                   /\ routing_table' = routing_table
                   /\ queue' = queue]_vars
    /\ [][\A name \in Projects :
            (name \in DOMAIN routing_table /\ name \notin DOMAIN routing_table')
                => /\ queue # <<>>
                   /\ Head(queue).type = "Exited"
                   /\ queue' = Tail(queue)]_vars

StoppedAtOnceRouteKept ==
    \E p \in DOMAIN processes :
        /\ response = Success(p)
        /\ processes[p].status = "Stopped"
        /\ child[p] = "signalled"
        /\ sentExited[p] = 0
        /\ processes[p].port # None
        /\ Lookup(routing_table, processes[p].project_name) = processes[p].port

\* C37: once spawn has returned, no wait or probe task runs for a process_id
\* that has no record, and no event of such a process_id is in the channel.
NoTaskWithoutRecord ==
    /\ \A p \in ProcIds \ DOMAIN processes :
            /\ waitTask[p] # "waiting"
            /\ probe[p].pc \notin {"polling", "detected"}
    /\ \A i \in DOMAIN queue : queue[i].process_id \in DOMAIN processes

\* C38: every key of the routing table is the project_name of a record and
\* the name of a project of the registry, and is a name that
\* validate_project_name accepts and that holds no '.' and no ':'.
RouteKeysAreProjectNames ==
    \A name \in DOMAIN routing_table :
        /\ \E p \in DOMAIN processes : processes[p].project_name = name
        /\ name \in DOMAIN registry
        /\ ValidateProjectName(TextOf(name)) = "ok"
        /\ \A i \in DOMAIN TextOf(name) : TextOf(name)[i] \notin {".", ":"}

BothProjectsRouted ==
    /\ DOMAIN routing_table = Projects
    /\ DOMAIN registry = Projects
    /\ \A name \in Projects : \E p \in RunningRecords :
            /\ processes[p].project_name = name
            /\ processes[p].port = Some(routing_table[name])

\* C40: what StopProcess does is decided by the process_id of the request
\* alone: a process_id without record is refused, a record is marked Stopped
\* with success (or left alone when the signal cannot be sent to a reaped
\* child), whether or not its project_name is the one the request carries.
StopIgnoresProjectName ==
    [][\A name \in Projects, p \in ProcIds :
        (/\ request' # request
         /\ request'.project_name = name
         /\ request'.process_id = p)
            => IF p \notin DOMAIN processes
               THEN response' = IpcError("Process not found", "", p)
               ELSE \/ /\ response' = Success(p)
                       /\ processes'[p].status = "Stopped"
                    \/ /\ child[p] = "reaped"
                       /\ response' = IpcError("Failed to send SIGTERM", "", p)
                       /\ processes' = processes]_vars

StoppedUnderOtherName ==
    /\ request.process_id \in DOMAIN processes
    /\ request.project_name \in DOMAIN registry
    /\ processes[request.process_id].project_name # request.project_name
    /\ processes[request.process_id].status = "Stopped"
    /\ child[request.process_id] = "signalled"
    /\ response = Success(request.process_id)

OnlyRouterWritesRoutes ==
    [][routing_table' # routing_table
          => /\ queue # <<>>
             /\ Head(queue).type \in {"PortDetected", "Exited"}
             /\ queue' = Tail(queue)
             /\ response' = response
             /\ \A r \in ReqIds : proxy'[r].pc = proxy[r].pc]_vars

RouteWrittenAmidRequests ==
    /\ "alpha" \in DOMAIN routing_table
    /\ response.type \in {"Projects", "Processes", "Status"}
    /\ proxy[1].pc = "respond"
    /\ proxy[1].name = "alpha"
    /\ consumedExited[1] = 0

\* C34: every probe task ends; it has then either sent one PortDetected,
\* after fewer than MaxPolls unsuccessful polls, or made MaxPolls
\* unsuccessful polls and sent none, and in that case its record has no
\* port, no PortDetected of it is in the channel and no route leads to its
\* port.
ProbeTerminates ==
    /\ \A p \in ProcIds :
            [](probe[p].pc \in {"polling", "detected"} => <>(probe[p].pc = "done"))
    /\ [](\A p \in ProcIds :
            /\ probe[p].polls <= MaxPolls
            /\ probe[p].pc = "done"
                => \/ sentPort[p] = 1 /\ probe[p].polls < MaxPolls
                   \/ /\ sentPort[p] = 0
                      /\ probe[p].polls = MaxPolls
                      /\ p \in DOMAIN processes => processes[p].port = None
                      /\ \A i \in DOMAIN queue :
                            ~(queue[i].type = "PortDetected" /\ queue[i].process_id = p)
                      /\ \A name \in DOMAIN routing_table :
                            routing_table[name] # PortOf(p))

ProbeGaveUp ==
    \E p \in RunningRecords :
        /\ probe[p].pc = "done"
        /\ probe[p].polls = MaxPolls
        /\ sentPort[p] = 0
        /\ child[p] = "running"
        /\ processes[p].port = None
        /\ processes[p].project_name \notin DOMAIN routing_table

\* C33: the Event Router does not hold the state lock while the write of
\* project.json that it started is in progress, so that an IPC request can
\* take the lock between the start and the end of that write.
RouterWritesUnlocked ==
    router.pc = "writing" => (mutex # "router" /\ ENABLED Locked(Status))

\* C35: a request and an event are handled under exclusive access to the
\* state, and the Event Router handles a PortDetected or an Exited event of
\* a process_id only when spawn has inserted the record of that process_id.
HandledAfterInsert ==
    /\ router.pc \in {"handle", "writing"} => (mutex = "router" /\ spawning = None)
    /\ spawning # None => mutex = "ipc"
    /\ router.pc = "handle" => router.event.process_id \in DOMAIN processes

\* C36: no interleaving of requests, Event Router, proxy lookups and child
\* tasks deadlocks: the routing table is written only by the holder of the
\* state lock, a proxy step never takes the state lock, no holder of the
\* state lock sends on the event queue, the state lock is always released
\* again, and every queued event is eventually consumed.
InQueue(p, type) ==
    \E i \in 1..Len(queue) : queue[i].process_id = p /\ queue[i].type = type
LockOrder ==
    [][/\ routing_table' # routing_table => mutex = "router"
       /\ (\E r \in DOMAIN proxy : proxy'[r].pc # proxy[r].pc)
            => (mutex' = mutex /\ router' = router /\ spawning' = spawning)
       /\ Len(queue') > Len(queue)
            => (mutex' = mutex /\ router' = router /\ spawning' = spawning
                /\ response' = response)]_vars
NoDeadlock ==
    /\ LockOrder
    /\ [](mutex # "free" => <>(mutex = "free"))
    /\ \A p \in ProcIds : \A type \in {"Output", "PortDetected", "Exited"} :
         [](InQueue(p, type) => <>(~InQueue(p, type)))
RouterWaitsQueueFull ==
    /\ Full
    /\ router.pc = "lock"
    /\ mutex = "ipc"
    /\ \E r \in DOMAIN proxy : proxy[r].pc = "lookup"
    /\ \E p \in ProcIds : child[p] # "none" /\ output[p] < MaxLines

====
